---------------------------- MODULE Spec2Model ----------------------------
(***************************************************************************)
(* A model of package cleanarg (janert/cleanarg): the command-line token   *)
(* parser populateFromSlice and the functions it calls.                    *)
(*                                                                         *)
(* Strings are sequences of one-character strings, so that chopToken,      *)
(* strconv.Atoi and the re-synthesis of compound flags are computed on     *)
(* the characters as the Go code computes them.  The empty string is <<>>. *)
(*                                                                         *)
(* A struct value (the destination, reflect.Value v) is a function from    *)
(* field names to values: an Int for int, a string for string, a BOOLEAN   *)
(* for bool, and a record [isNil, elems] for a slice.                      *)
(***************************************************************************)
EXTENDS Integers, Sequences, FiniteSets, TLC

(***************************************************************************)
(* Strings                                                                 *)
(***************************************************************************)

\* src/cleanarg.go:38
endFlagsIndicator == <<"-", "-">>

DigitChars == <<"0", "1", "2", "3", "4", "5", "6", "7", "8", "9">>

IsDigit(c) == \E i \in 1..Len(DigitChars) : DigitChars[i] = c

DigitVal(c) == (CHOOSE i \in 1..Len(DigitChars) : DigitChars[i] = c) - 1

IsAlnum(c) ==
    \/ IsDigit(c)
    \/ c \in {"a", "b", "c", "d", "e", "f", "g", "h", "i", "j", "k", "l", "m",
              "n", "o", "p", "q", "r", "s", "t", "u", "v", "w", "x", "y", "z",
              "A", "B", "C", "D", "E", "F", "G", "H", "I", "J", "K", "L", "M",
              "N", "O", "P", "Q", "R", "S", "T", "U", "V", "W", "X", "Y", "Z"}

\* strings.HasPrefix(s, p)
HasPrefix(s, p) == Len(s) >= Len(p) /\ SubSeq(s, 1, Len(p)) = p

\* index of the first occurrence of character c in s, 0 when there is none
IndexOf(s, c) ==
    IF \E i \in 1..Len(s) : s[i] = c
    THEN CHOOSE i \in 1..Len(s) : s[i] = c /\ \A j \in 1..(i - 1) : s[j] # c
    ELSE 0

\* strings.Cut(s, sep) for a one-character separator: <<before, after>>
Cut(s, c) ==
    LET i == IndexOf(s, c)
    IN  IF i = 0 THEN <<s, <<>>>>
        ELSE <<SubSeq(s, 1, i - 1), SubSeq(s, i + 1, Len(s))>>

\* the value of a non-empty string of decimal digits
RECURSIVE DigitsValue(_)
DigitsValue(s) ==
    IF Len(s) = 0 THEN 0
    ELSE 10 * DigitsValue(SubSeq(s, 1, Len(s) - 1)) + DigitVal(s[Len(s)])

AllDigits(s) == Len(s) > 0 /\ \A i \in 1..Len(s) : IsDigit(s[i])

\* strconv.Atoi(s): an optional sign and then one or more decimal digits
Atoi(s) ==
    LET signed == Len(s) > 0 /\ s[1] \in {"-", "+"}
        body   == IF signed THEN Tail(s) ELSE s
    IN  IF ~AllDigits(body) THEN [val |-> 0, err |-> "ConversionError"]
        ELSE IF signed /\ s[1] = "-"
             THEN [val |-> 0 - DigitsValue(body), err |-> "nil"]
             ELSE [val |-> DigitsValue(body), err |-> "nil"]

(***************************************************************************)
(* The schema: a struct type is a sequence of struct fields                *)
(*   [Name, kind, elem, hasFlag, flagTag, defaultval, format, ignore]      *)
(* kind is "scalar", "slice" or "pointer"; elem is the (element) type;     *)
(* hasFlag says the field carries an arg-flag tag and flagTag is           *)
(* strings.Fields of that tag; defaultval and format are the arg-default   *)
(* and arg-format tags ("" when absent); ignore says the field carries an  *)
(* arg-ignore tag.                                                         *)
(***************************************************************************)

\* src/cleanarg.go:45-53, the keys of allowedTypes
allowedTypes == {"string", "bool", "int", "float64", "time", "duration"}

\* regexp shortFlag "^[-+][0-9A-Za-z]$"
shortFlagRE(t) == Len(t) = 2 /\ t[1] \in {"-", "+"} /\ IsAlnum(t[2])

\* regexp longFlag "^--[0-9A-Za-z][0-9A-Za-z-]+$"
longFlagRE(t) ==
    /\ Len(t) >= 4
    /\ t[1] = "-" /\ t[2] = "-"
    /\ IsAlnum(t[3])
    /\ \A i \in 4..Len(t) : IsAlnum(t[i]) \/ t[i] = "-"

\* only the first flag of the tag is kept
extractFlagsFirst(s) ==
    IF \A i \in 1..Len(s) : shortFlagRE(s[i]) \/ longFlagRE(s[i])
    THEN [flags |-> {s[i] : i \in (1..Len(s)) \cap {1}}, err |-> "nil"]
    ELSE [flags |-> {}, err |-> "SchemaError"]

\* extractFlagsSorted: the flags of an arg-flag tag, or an error at the first
\* malformed one.  The result is used here as the set of keys to enter in
\* the option map; its sort order only matters to the usage printer.
extractFlagsSorted(s) ==
    IF \A i \in 1..Len(s) : shortFlagRE(s[i]) \/ longFlagRE(s[i])
    THEN [flags |-> {s[i] : i \in 1..Len(s)}, err |-> "nil"]
    ELSE [flags |-> {}, err |-> "SchemaError"]

\* makeFieldInfo: the fieldInfo of a struct field, or an error for a pointer
\* or a base type that is not allowed.  flag and value are the "command line
\* values" of fieldInfo, empty until processTokens sets them.
makeFieldInfo(field) ==
    IF field.kind = "pointer" \/ field.elem \notin allowedTypes
    THEN [info |-> <<>>, err |-> "SchemaError"]
    ELSE [info |-> [Name       |-> field.Name,
                    flag       |-> <<>>,
                    value      |-> <<>>,
                    defaultval |-> field.defaultval,
                    format     |-> field.format,
                    isSlice    |-> (field.kind = "slice"),
                    baseType   |-> field.elem],
          err |-> "nil"]

\* the positional slices are not counted
analyzeFieldNoLimit(acc, field) ==
    IF field.ignore THEN acc
    ELSE LET mk == makeFieldInfo(field)
         IN  IF mk.err # "nil" THEN [acc EXCEPT !.err = mk.err]
             ELSE IF field.hasFlag
             THEN LET ex == extractFlagsSorted(field.flagTag)
                  IN  IF ex.err # "nil" THEN [acc EXCEPT !.err = ex.err]
                      ELSE [acc EXCEPT !.options =
                               [f \in (DOMAIN acc.options) \cup ex.flags |->
                                   IF f \in ex.flags THEN mk.info
                                   ELSE acc.options[f]]]
             ELSE [acc EXCEPT !.positionals = Append(@, mk.info)]

\* the arg-ignore tag is looked at only on fields without an arg-flag tag
analyzeFieldFlagPrevails(acc, field) ==
    IF field.ignore /\ ~field.hasFlag THEN acc
    ELSE LET mk == makeFieldInfo(field)
         IN  IF mk.err # "nil" THEN [acc EXCEPT !.err = mk.err]
             ELSE IF field.hasFlag
             THEN LET ex == extractFlagsSorted(field.flagTag)
                  IN  IF ex.err # "nil" THEN [acc EXCEPT !.err = ex.err]
                      ELSE [acc EXCEPT !.options =
                               [f \in (DOMAIN acc.options) \cup ex.flags |->
                                   IF f \in ex.flags THEN mk.info
                                   ELSE acc.options[f]]]
             ELSE LET slices == acc.slices + (IF mk.info.isSlice THEN 1 ELSE 0)
                  IN  IF mk.info.isSlice /\ slices > 1
                      THEN [acc EXCEPT !.err = "SchemaError"]
                      ELSE [acc EXCEPT
                               !.positionals = Append(@, mk.info),
                               !.slices = slices]

\* the body of the loop of analyzeStruct for field number i, applied to the
\* accumulated result acc = [options, positionals, slices, err]
analyzeField(acc, field) ==
    IF field.ignore THEN acc
    ELSE LET mk == makeFieldInfo(field)
         IN  IF mk.err # "nil" THEN [acc EXCEPT !.err = mk.err]
             ELSE IF field.hasFlag
             THEN LET ex == extractFlagsSorted(field.flagTag)
                  IN  IF ex.err # "nil" THEN [acc EXCEPT !.err = ex.err]
                      ELSE [acc EXCEPT !.options =
                               [f \in (DOMAIN acc.options) \cup ex.flags |->
                                   IF f \in ex.flags THEN mk.info
                                   ELSE acc.options[f]]]
             ELSE LET slices == acc.slices + (IF mk.info.isSlice THEN 1 ELSE 0)
                  IN  IF mk.info.isSlice /\ slices > 1
                      THEN [acc EXCEPT !.err = "SchemaError"]
                      ELSE [acc EXCEPT
                               !.positionals = Append(@, mk.info),
                               !.slices = slices]

RECURSIVE analyzeFrom(_, _, _)
analyzeFrom(fields, i, acc) ==
    IF i > Len(fields) \/ acc.err # "nil" THEN acc
    ELSE analyzeFrom(fields, i + 1, analyzeField(acc, fields[i]))

\* analyzeStruct: the option map (keyed on flag), the positional fields in
\* order, and the error; on error options and positionals are nil
analyzeStruct(fields) ==
    LET r == analyzeFrom(fields, 1,
                 [options |-> <<>>, positionals |-> <<>>,
                  slices |-> 0, err |-> "nil"])
    IN  IF r.err # "nil"
        THEN [options |-> <<>>, positionals |-> <<>>, err |-> r.err]
        ELSE [options |-> r.options, positionals |-> r.positionals,
              err |-> "nil"]

(***************************************************************************)
(* Token processing                                                        *)
(***************************************************************************)

\* chopToken: <<flag, rest>>
chopToken(s) ==
    IF s = <<"-", "-">> \/ s = <<"-">> \/ s = <<"+">>
    THEN <<s, <<>>>>
    ELSE IF HasPrefix(s, <<"-", "-">>)
    THEN Cut(s, "=")
    ELSE IF HasPrefix(s, <<"-">>) \/ HasPrefix(s, <<"+">>)
    THEN <<SubSeq(s, 1, 2), SubSeq(s, 3, Len(s))>>
    ELSE <<s, <<>>>>

\* The state of the loop of processMaybeFlags is a record
\*   [tokens, token, isCompound, flags, positionals, err]
\* with err = "nil" while the function has not returned an error.

\* the loop condition: len(tokens) > 0 || token != ""
loopCond(st) == Len(st.tokens) > 0 \/ st.token # <<>>

\* isCompound is left as it is when the next token is taken from the queue
refillKeepsCompound(st) ==
    IF st.token = <<>>
    THEN [st EXCEPT !.token = Head(st.tokens),
                    !.tokens = Tail(st.tokens)]
    ELSE st

\* an empty token taken from the queue is passed over while the queue has
\* more tokens
RECURSIVE refillSkipsEmpty(_)
refillSkipsEmpty(st) ==
    IF st.token = <<>>
    THEN IF Head(st.tokens) = <<>> /\ Len(st.tokens) > 1
         THEN refillSkipsEmpty([st EXCEPT !.tokens = Tail(st.tokens)])
         ELSE [st EXCEPT !.token = Head(st.tokens),
                         !.tokens = Tail(st.tokens),
                         !.isCompound = FALSE]
    ELSE st

\* lines 586-589: refill the pending token from the queue
refill(st) ==
    IF st.token = <<>>
    THEN [st EXCEPT !.token = Head(st.tokens),
                    !.tokens = Tail(st.tokens),
                    !.isCompound = FALSE]
    ELSE st

\* an unknown flag inside a compound flag is taken for a positional
caseUnknownCompoundAsPositional(st) ==
    [st EXCEPT !.positionals = Append(@, st.token), !.token = <<>>]

\* lines 594-597: an unknown flag inside a compound flag
caseUnknownCompound(st) ==
    [st EXCEPT !.flags = <<>>, !.positionals = <<>>,
               !.err = "UnknownCompoundFlag"]

\* the token is appended to the positionals twice
casePositionalTwice(st) ==
    [st EXCEPT !.positionals = Append(Append(@, st.token), st.token),
               !.token = <<>>]

\* the key of the token is emitted instead of the token
casePositionalKey(st) ==
    [st EXCEPT !.positionals = Append(@, chopToken(st.token)[1]),
               !.token = <<>>]

\* lines 599-604: not a known flag, the token is a positional
casePositional(st) ==
    [st EXCEPT !.positionals = Append(@, st.token), !.token = <<>>]

\* a complete flag without a rest takes the next token as its value
caseCompleteTakeNext(st, info, flag, rest) ==
    IF rest = <<>> /\ Len(st.tokens) > 0
    THEN [st EXCEPT !.flags = Append(@, [info EXCEPT !.flag = flag,
                                            !.value = Head(st.tokens)]),
                    !.token = <<>>,
                    !.tokens = Tail(@)]
    ELSE [st EXCEPT !.flags = Append(@, [info EXCEPT !.flag = flag,
                                                     !.value = rest]),
                    !.token = <<>>]

\* lines 617-620 and 651: the flag is complete
caseComplete(st, info, flag, rest) ==
    [st EXCEPT !.flags = Append(@, [info EXCEPT !.flag = flag,
                                                !.value = rest]),
               !.token = <<>>]

\* the rest becomes the pending token without the "-" in front of it
caseCompoundNoPrefix(st, info, flag, rest) ==
    [st EXCEPT !.flags = Append(@, [info EXCEPT !.flag = flag,
                                                !.value = <<>>]),
               !.token = rest,
               !.isCompound = TRUE]

\* the flag is not taken off the pending token
caseCompoundSameToken(st, info, flag, rest) ==
    [st EXCEPT !.flags = Append(@, [info EXCEPT !.flag = flag,
                                                !.value = <<>>]),
               !.token = flag \o rest,
               !.isCompound = TRUE]

\* lines 622-629 and 651: a boolean flag with a rest, a compound flag
caseCompound(st, info, flag, rest) ==
    [st EXCEPT !.flags = Append(@, [info EXCEPT !.flag = flag,
                                                !.value = <<>>]),
               !.token = <<"-">> \o rest,
               !.isCompound = TRUE]

\* standard mode falls back to the default when no token is left
caseIncompleteDefault(st, info, flag, isFused) ==
    IF isFused \/ Len(st.tokens) = 0
    THEN [st EXCEPT !.flags = Append(@, [info EXCEPT !.flag = flag,
                                            !.value = info.defaultval]),
                    !.token = <<>>]
    ELSE [st EXCEPT !.flags = Append(@, [info EXCEPT !.flag = flag,
                                            !.value = Head(st.tokens)]),
                    !.token = <<>>,
                    !.tokens = Tail(@)]

\* the token taken as value stays in the queue
caseIncompleteKeep(st, info, flag, isFused) ==
    IF isFused
    THEN [st EXCEPT !.flags = Append(@, [info EXCEPT !.flag = flag,
                                            !.value = info.defaultval]),
                    !.token = <<>>]
    ELSE IF Len(st.tokens) > 0
    THEN [st EXCEPT !.flags = Append(@, [info EXCEPT !.flag = flag,
                                            !.value = Head(st.tokens)]),
                    !.token = <<>>]
    ELSE [st EXCEPT !.flags = <<>>, !.positionals = <<>>,
                    !.err = "InsufficientTokens"]

\* the mode is not looked at: the next token is always the value
caseIncompleteAlwaysNext(st, info, flag, isFused) ==
    IF Len(st.tokens) > 0
    THEN [st EXCEPT !.flags = Append(@, [info EXCEPT !.flag = flag,
                                            !.value = Head(st.tokens)]),
                    !.token = <<>>,
                    !.tokens = Tail(@)]
    ELSE [st EXCEPT !.flags = <<>>, !.positionals = <<>>,
                    !.err = "InsufficientTokens"]

\* lines 631-645 and 651: a flag that takes a value and has no rest
caseIncomplete(st, info, flag, isFused) ==
    IF isFused
    THEN [st EXCEPT !.flags = Append(@, [info EXCEPT !.flag = flag,
                                            !.value = info.defaultval]),
                    !.token = <<>>]
    ELSE IF Len(st.tokens) > 0
    THEN [st EXCEPT !.flags = Append(@, [info EXCEPT !.flag = flag,
                                            !.value = Head(st.tokens)]),
                    !.token = <<>>,
                    !.tokens = Tail(@)]
    ELSE [st EXCEPT !.flags = <<>>, !.positionals = <<>>,
                    !.err = "InsufficientTokens"]

\* one iteration of the loop of processMaybeFlags (lines 584-652)
loopBody(st, options, isFused) ==
    LET s1   == refill(st)
        ct   == chopToken(s1.token)
        flag == ct[1]
        rest == ct[2]
        ok   == flag \in DOMAIN options
    IN  IF ~ok /\ s1.isCompound THEN caseUnknownCompound(s1)
        ELSE IF ~ok THEN casePositional(s1)
        ELSE LET info          == options[flag]
                 isFlagBoolean == info.baseType = "bool"
                 isRestEmpty   == rest = <<>>
             IN  IF isFlagBoolean = isRestEmpty
                 THEN caseComplete(s1, info, flag, rest)
                 ELSE IF isFlagBoolean /\ ~isRestEmpty
                 THEN caseCompound(s1, info, flag, rest)
                 ELSE caseIncomplete(s1, info, flag, isFused)

\* the state of processMaybeFlags before its loop
loopInit(tokens) ==
    [tokens |-> tokens, token |-> <<>>, isCompound |-> FALSE,
     flags |-> <<>>, positionals |-> <<>>, err |-> "nil"]

RECURSIVE loopRun(_, _, _)
loopRun(st, options, isFused) ==
    IF st.err # "nil" \/ ~loopCond(st) THEN st
    ELSE loopRun(loopBody(st, options, isFused), options, isFused)

\* processMaybeFlags: [flags, positionals, err]
processMaybeFlags(tokens, options, isFused) ==
    LET st == loopRun(loopInit(tokens), options, isFused)
    IN  [flags |-> st.flags, positionals |-> st.positionals, err |-> st.err]

\* a scan that keeps the last "--" instead of stopping at the first
endFlagsLast(tokens) ==
    IF \E i \in 1..Len(tokens) : tokens[i] = endFlagsIndicator
    THEN (CHOOSE i \in 1..Len(tokens) :
              /\ tokens[i] = endFlagsIndicator
              /\ \A j \in (i + 1)..Len(tokens) :
                     tokens[j] # endFlagsIndicator) - 1
    ELSE Len(tokens)

\* lines 522-528: the index (from 0) of the first "--", or len(tokens)
endFlags(tokens) ==
    IF \E i \in 1..Len(tokens) : tokens[i] = endFlagsIndicator
    THEN (CHOOSE i \in 1..Len(tokens) :
              /\ tokens[i] = endFlagsIndicator
              /\ \A j \in 1..(i - 1) : tokens[j] # endFlagsIndicator) - 1
    ELSE Len(tokens)

\* the slice passed to processMaybeFlags includes the "--"
beforeEndFlagsWithMarker(tokens) ==
    SubSeq(tokens, 1, IF endFlags(tokens) < Len(tokens)
                      THEN endFlags(tokens) + 1 ELSE Len(tokens))

\* tokens[:endFlags]
beforeEndFlags(tokens) == SubSeq(tokens, 1, endFlags(tokens))

\* lines 535-537: tokens[endFlags+1:], appended to the positionals
afterEndFlags(tokens) == SubSeq(tokens, endFlags(tokens) + 2, Len(tokens))

\* processTokens3: [flags, positionals, err]
processTokens3(options, tokens, isFused) ==
    LET r == processMaybeFlags(beforeEndFlags(tokens), options, isFused)
    IN  [flags |-> r.flags,
         positionals |-> r.positionals \o afterEndFlags(tokens),
         err |-> r.err]

\* processTokens (lines 307-312) calls processTokens3
processTokens(options, tokens, isFused) ==
    processTokens3(options, tokens, isFused)

(***************************************************************************)
(* Conversion and assignment                                               *)
(***************************************************************************)

\* src/cleanarg.go:29
defaultTimeFormat ==
    <<"2", "0", "0", "6", "-", "0", "1", "-", "0", "2", " ",
      "1", "5", ":", "0", "4", ":", "0", "5">>

\* a float64 is the record [mant, exp] that stands for mant * 10^exp, with
\* mant not a multiple of 10, and [0, 0] for zero
RECURSIVE NormFloat(_, _)
NormFloat(m, x) ==
    IF m = 0 THEN [mant |-> 0, exp |-> 0]
    ELSE IF m % 10 = 0 THEN NormFloat(m \div 10, x + 1)
    ELSE [mant |-> m, exp |-> x]

\* strconv.ParseFloat(s, 64) on decimal strings: an optional sign, digits
\* with an optional point among them, an optional exponent ("2e-1").  The
\* strings of the model are short, so that the decimal value is the result;
\* hexadecimal strings, "inf" and "nan" are not among them.

\* the sign of the string and the string without it
floatSign(s) == IF Len(s) > 0 /\ s[1] = "-" THEN 0 - 1 ELSE 1

floatBody(s) == IF Len(s) > 0 /\ s[1] \in {"-", "+"} THEN Tail(s) ELSE s

\* the place of the exponent mark, 0 without one
floatExpAt(body) ==
    IF IndexOf(body, "e") # 0 THEN IndexOf(body, "e") ELSE IndexOf(body, "E")

\* the value from the sign, the digits before and after the point and the
\* exponent read
floatValue(sign, intS, fracS, expV) ==
    IF ~AllDigits(intS \o fracS) \/ expV.err # "nil"
    THEN [val |-> NormFloat(0, 0), err |-> "ConversionError"]
    ELSE [val |-> NormFloat(sign * DigitsValue(intS \o fracS),
                            expV.val - Len(fracS)),
          err |-> "nil"]

\* the mantissa is cut at the point, at dot
floatMantissa(sign, mantS, dot, expV) ==
    floatValue(sign,
               IF dot = 0 THEN mantS ELSE SubSeq(mantS, 1, dot - 1),
               IF dot = 0 THEN <<>> ELSE SubSeq(mantS, dot + 1, Len(mantS)),
               expV)

floatParts(sign, mantS, expV) ==
    floatMantissa(sign, mantS, IndexOf(mantS, "."), expV)

\* the string is cut at the exponent mark, at e
floatSplit(sign, body, e) ==
    floatParts(sign,
               IF e = 0 THEN body ELSE SubSeq(body, 1, e - 1),
               IF e = 0 THEN [val |-> 0, err |-> "nil"]
               ELSE Atoi(SubSeq(body, e + 1, Len(body))))

ParseFloat(s) == floatSplit(floatSign(s), floatBody(s), floatExpAt(floatBody(s)))

\* a time.Time is the record [year, month, day, hour, min, sec] (no zone:
\* the layouts of the model have none, the time is in UTC)
timeOf(year, month, day, hour, min, sec) ==
    [year |-> year, month |-> month, day |-> day,
     hour |-> hour, min |-> min, sec |-> sec]

\* package time, daysIn
daysIn(month, year) ==
    IF month = 2
    THEN IF year % 4 = 0 /\ (year % 100 # 0 \/ year % 400 = 0)
         THEN 29 ELSE 28
    ELSE IF month \in {4, 6, 9, 11} THEN 30 ELSE 31

\* package time, getnum: a number of one or two digits at the head of s,
\* of two digits when fixed: [n, rest, ok]
getnum(s, fixed) ==
    IF Len(s) = 0 \/ ~IsDigit(s[1])
    THEN [n |-> 0, rest |-> s, ok |-> FALSE]
    ELSE IF Len(s) < 2 \/ ~IsDigit(s[2])
    THEN IF fixed THEN [n |-> 0, rest |-> s, ok |-> FALSE]
         ELSE [n |-> DigitVal(s[1]), rest |-> Tail(s), ok |-> TRUE]
    ELSE [n |-> 10 * DigitVal(s[1]) + DigitVal(s[2]),
          rest |-> SubSeq(s, 3, Len(s)), ok |-> TRUE]

\* package time, cutspace
RECURSIVE cutspace(_)
cutspace(s) == IF Len(s) > 0 /\ s[1] = " " THEN cutspace(Tail(s)) ELSE s

\* time.Parse from the layout and the value that are left and the time read
\* so far.  The layouts of the model are made of the elements "2006", "01",
\* "02", "15", "04", "05" and of separators; the values of the model have no
\* fraction of a second.
RECURSIVE timeParseFrom(_, _, _)

\* one element of the layout: fix and free are the number at the head of
\* the value, of two digits and of one or two, more is the layout after an
\* element of two characters, bad the error
timeParseElement(layout, value, t, fix, free, more, bad) ==
    IF layout = <<>>
    THEN IF value # <<>> THEN bad
         ELSE IF t.day < 1 \/ t.day > daysIn(t.month, t.year) THEN bad
         ELSE [val |-> t, err |-> "nil"]
    ELSE IF HasPrefix(layout, <<"2", "0", "0", "6">>)
    THEN IF Len(value) >= 4 /\ AllDigits(SubSeq(value, 1, 4))
         THEN timeParseFrom(SubSeq(layout, 5, Len(layout)),
                  SubSeq(value, 5, Len(value)),
                  [t EXCEPT !.year = DigitsValue(SubSeq(value, 1, 4))])
         ELSE bad
    ELSE IF HasPrefix(layout, <<"0", "1">>)
    THEN IF fix.ok /\ fix.n >= 1 /\ fix.n <= 12
         THEN timeParseFrom(more, fix.rest, [t EXCEPT !.month = fix.n])
         ELSE bad
    ELSE IF HasPrefix(layout, <<"0", "2">>)
    THEN IF fix.ok
         THEN timeParseFrom(more, fix.rest, [t EXCEPT !.day = fix.n])
         ELSE bad
    ELSE IF HasPrefix(layout, <<"1", "5">>)
    THEN IF free.ok /\ free.n < 24
         THEN timeParseFrom(more, free.rest, [t EXCEPT !.hour = free.n])
         ELSE bad
    ELSE IF HasPrefix(layout, <<"0", "4">>)
    THEN IF fix.ok /\ fix.n < 60
         THEN timeParseFrom(more, fix.rest, [t EXCEPT !.min = fix.n])
         ELSE bad
    ELSE IF HasPrefix(layout, <<"0", "5">>)
    THEN IF fix.ok /\ fix.n < 60
         THEN timeParseFrom(more, fix.rest, [t EXCEPT !.sec = fix.n])
         ELSE bad
    ELSE IF layout[1] = " "
    THEN IF value # <<>> /\ value[1] = " "
         THEN timeParseFrom(cutspace(layout), cutspace(value), t)
         ELSE bad
    ELSE IF value # <<>> /\ value[1] = layout[1]
    THEN timeParseFrom(Tail(layout), Tail(value), t)
    ELSE bad

timeParseFrom(layout, value, t) ==
    timeParseElement(layout, value, t,
                     getnum(value, TRUE), getnum(value, FALSE),
                     SubSeq(layout, 3, Len(layout)),
                     [val |-> t, err |-> "ConversionError"])

\* the result of time.Parse from that of the loop: the zero time with the
\* error
timeParseResult(r) ==
    IF r.err # "nil"
    THEN [val |-> timeOf(1, 1, 1, 0, 0, 0), err |-> r.err]
    ELSE r

\* time.Parse(layout, value): a time without year is in year 0, without
\* month or day on the first
timeParse(layout, value) ==
    timeParseResult(timeParseFrom(layout, value, timeOf(0, 1, 1, 0, 0, 0)))

\* a time.Duration is the record [sec, nsec] of its whole seconds and the
\* nanoseconds beyond them, both negative for a negative duration

\* the duration of n units
durationOf(n, unit) ==
    CASE unit = <<"n", "s">> ->
             [sec |-> n \div 1000000000, nsec |-> n % 1000000000]
      [] unit = <<"u", "s">> ->
             [sec |-> n \div 1000000, nsec |-> (n % 1000000) * 1000]
      [] unit = <<"m", "s">> ->
             [sec |-> n \div 1000, nsec |-> (n % 1000) * 1000000]
      [] unit = <<"s">> -> [sec |-> n, nsec |-> 0]
      [] unit = <<"m">> -> [sec |-> n * 60, nsec |-> 0]
      [] unit = <<"h">> -> [sec |-> n * 3600, nsec |-> 0]

durationUnits ==
    { <<"n", "s">>, <<"u", "s">>, <<"m", "s">>, <<"s">>, <<"m">>, <<"h">> }

durationSum(a, b) ==
    [sec  |-> a.sec + b.sec + ((a.nsec + b.nsec) \div 1000000000),
     nsec |-> (a.nsec + b.nsec) % 1000000000]

\* the length of the longest prefix of s made of digits / of characters
\* that are neither a digit nor a point
leadingDigits(s) ==
    CHOOSE n \in 0..Len(s) :
        /\ \A i \in 1..n : IsDigit(s[i])
        /\ n = Len(s) \/ ~IsDigit(s[n + 1])

leadingUnit(s) ==
    CHOOSE n \in 0..Len(s) :
        /\ \A i \in 1..n : ~IsDigit(s[i]) /\ s[i] # "."
        /\ n = Len(s) \/ IsDigit(s[n + 1]) \/ s[n + 1] = "."

\* the loop of time.ParseDuration: a number and a unit, as often as there
\* are.  The numbers of the model have no fraction.
RECURSIVE durationFrom(_, _)

\* the digits read, the unit that follows them and what is left after it
durationTerm(acc, digits, unit, left) ==
    IF digits = <<>> \/ unit \notin durationUnits
    THEN [val |-> acc, err |-> "ConversionError"]
    ELSE durationFrom(left,
             durationSum(acc, durationOf(DigitsValue(digits), unit)))

\* the digits read and what follows them, which starts with a unit of nu
\* characters
durationUnit(acc, digits, rest, nu) ==
    durationTerm(acc, digits, SubSeq(rest, 1, nu),
                 SubSeq(rest, nu + 1, Len(rest)))

durationNumber(acc, digits, rest) ==
    durationUnit(acc, digits, rest, leadingUnit(rest))

\* s starts with a number of nd digits
durationDigits(s, acc, nd) ==
    durationNumber(acc, SubSeq(s, 1, nd), SubSeq(s, nd + 1, Len(s)))

durationFrom(s, acc) ==
    IF s = <<>> THEN [val |-> acc, err |-> "nil"]
    ELSE durationDigits(s, acc, leadingDigits(s))

\* the result of time.ParseDuration from the string without its sign, the
\* result of the loop on it, and whether the sign is a minus
durationResult(body, r, negative) ==
    IF body = <<"0">> THEN [val |-> [sec |-> 0, nsec |-> 0], err |-> "nil"]
    ELSE IF body = <<>> \/ r.err # "nil"
    THEN [val |-> [sec |-> 0, nsec |-> 0], err |-> "ConversionError"]
    ELSE IF negative
    THEN [val |-> [sec |-> 0 - r.val.sec, nsec |-> 0 - r.val.nsec],
          err |-> "nil"]
    ELSE r

durationBody(body, negative) ==
    durationResult(body, durationFrom(body, [sec |-> 0, nsec |-> 0]),
                   negative)

\* time.ParseDuration(s): an optional sign, then "0" or numbers with units
ParseDuration(s) ==
    durationBody(IF Len(s) > 0 /\ s[1] \in {"-", "+"} THEN Tail(s) ELSE s,
                 Len(s) > 0 /\ s[1] = "-")

\* the raw value is converted as it is, without a look at the default
convertToTypeNoDefault(info) ==
    LET value == info.value
    IN  CASE info.baseType = "bool"     -> [val |-> TRUE, err |-> "nil"]
          [] info.baseType = "string"   -> [val |-> value, err |-> "nil"]
          [] info.baseType = "int"      -> Atoi(value)
          [] info.baseType = "float64"  -> ParseFloat(value)
          [] info.baseType = "time"     ->
                 timeParse(IF info.format # <<>> THEN info.format
                           ELSE defaultTimeFormat, value)
          [] info.baseType = "duration" -> ParseDuration(value)
          [] OTHER -> [val |-> 0, err |-> "ConversionError"]

\* convertToType: [val, err]
convertToType(info) ==
    LET value == IF info.value = <<>> THEN info.defaultval ELSE info.value
    IN  CASE info.baseType = "bool"     -> [val |-> TRUE, err |-> "nil"]
          [] info.baseType = "string"   -> [val |-> value, err |-> "nil"]
          [] info.baseType = "int"      -> Atoi(value)
          [] info.baseType = "float64"  -> ParseFloat(value)
          [] info.baseType = "time"     ->
                 timeParse(IF info.format # <<>> THEN info.format
                           ELSE defaultTimeFormat, value)
          [] info.baseType = "duration" -> ParseDuration(value)
          [] OTHER -> [val |-> 0, err |-> "ConversionError"]

\* a slice field is overwritten with the one value instead of appended to
populateFieldOverwrite(info, v) ==
    LET cv == convertToType(info)
    IN  IF cv.err # "nil" THEN [v |-> v, err |-> cv.err]
        ELSE IF info.isSlice
        THEN [v |-> [v EXCEPT ![info.Name] =
                        [isNil |-> FALSE, elems |-> <<cv.val>>]],
              err |-> "nil"]
        ELSE [v |-> [v EXCEPT ![info.Name] = cv.val], err |-> "nil"]

\* populateField: [v, err]; v is unchanged when the conversion fails
populateField(info, v) ==
    LET cv == convertToType(info)
    IN  IF cv.err # "nil" THEN [v |-> v, err |-> cv.err]
        ELSE IF info.isSlice
        THEN LET made == IF v[info.Name].isNil
                         THEN [isNil |-> FALSE, elems |-> <<>>]
                         ELSE v[info.Name]
             IN  [v |-> [v EXCEPT ![info.Name] =
                            [made EXCEPT !.elems = Append(@, cv.val)]],
                  err |-> "nil"]
        ELSE [v |-> [v EXCEPT ![info.Name] = cv.val], err |-> "nil"]

RECURSIVE populateOptionsFrom(_, _, _)
populateOptionsFrom(options, i, v) ==
    IF i > Len(options) THEN [v |-> v, err |-> "nil"]
    ELSE LET r == populateField(options[i], v)
         IN  IF r.err # "nil" THEN r
             ELSE populateOptionsFrom(options, i + 1, r.v)

\* the fieldInfos are applied last to first
populateOptionsReverse(options, v) ==
    populateOptionsFrom([i \in 1..Len(options) |->
                            options[Len(options) + 1 - i]], 1, v)

\* populateOptions: the fieldInfos are applied in order, up to the first error
populateOptions(options, v) == populateOptionsFrom(options, 1, v)

\* the boolean fields are left out
defaultKeysNoBool(options) ==
    {f \in DOMAIN options :
        /\ ~options[f].isSlice
        /\ options[f].defaultval # <<>>
        /\ options[f].baseType # "bool"}

\* the keys of the option map that populateDefaults retains (line 296)
defaultKeys(options) ==
    {f \in DOMAIN options :
        ~options[f].isSlice /\ options[f].defaultval # <<>>}

\* the orders in which a range over a map may visit a set of keys
keyOrders(keys) ==
    {o \in [1..Cardinality(keys) -> keys] :
        \A i, j \in 1..Cardinality(keys) : i # j => o[i] # o[j]}

\* no default is populated
populateDefaultsNone(options, v, order) == [v |-> v, err |-> "nil"]

\* populateDefaults, for the order in which the range over the option map
\* visits the retained keys
populateDefaults(options, v, order) ==
    populateOptions([i \in 1..Len(order) |-> options[order[i]]], v)

\* lines 826-831 and 841-846: positionals[dst+i].value = tokens[src+i] for
\* i < n, up to the first error
RECURSIVE populateRange(_, _, _, _, _, _)
populateRange(positionals, tokens, dst, src, n, v) ==
    IF n = 0 THEN [v |-> v, err |-> "nil"]
    ELSE LET r == populateField(
                      [positionals[dst] EXCEPT !.value = tokens[src]], v)
         IN  IF r.err # "nil" THEN [v |-> r.v, err |-> "ConversionError"]
             ELSE populateRange(positionals, tokens, dst + 1, src + 1,
                                n - 1, r.v)

\* lines 833-838: positionals[pos].value = tokens[pos+i] for i < between
RECURSIVE populateSlice(_, _, _, _, _, _)
populateSlice(positionals, tokens, pos, i, between, v) ==
    IF i >= between THEN [v |-> v, err |-> "nil"]
    ELSE LET r == populateField(
                      [positionals[pos] EXCEPT !.value = tokens[pos + i]], v)
         IN  IF r.err # "nil" THEN [v |-> r.v, err |-> "ConversionError"]
             ELSE populateSlice(positionals, tokens, pos, i + 1, between, r.v)

\* lines 789-795: the number of slices among the positional fields and the
\* index (from 1) of the last one, 1 when there is none
sliceCount(positionals) ==
    Cardinality({i \in 1..Len(positionals) : positionals[i].isSlice})

slicePos(positionals) ==
    IF sliceCount(positionals) = 0 THEN 1
    ELSE CHOOSE i \in 1..Len(positionals) :
             /\ positionals[i].isSlice
             /\ \A j \in (i + 1)..Len(positionals) : ~positionals[j].isSlice

\* fewer tokens than positional fields are accepted
populateNoSliceAtMost(positionals, tokens, v) ==
    IF Len(positionals) < Len(tokens)
    THEN [v |-> v, err |-> "ArityMismatch"]
    ELSE populateRange(positionals, tokens, 1, 1, Len(tokens), v)

\* lines 800-815: no positional field is a slice
populateNoSlice(positionals, tokens, v) ==
    IF Len(positionals) # Len(tokens)
    THEN [v |-> v, err |-> "ArityMismatch"]
    ELSE populateRange(positionals, tokens, 1, 1, Len(tokens), v)

\* the fields after the slice take the tokens that follow the fields before
\* it instead of the last tokens
populateOneSliceAfterFirst(positionals, tokens, pos, v) ==
    LET before  == pos - 1
        after   == Len(positionals) - pos
        between == Len(tokens) - before - after
    IN  IF between < 0 THEN [v |-> v, err |-> "ArityMismatch"]
        ELSE LET r1 == populateRange(positionals, tokens, 1, 1, before, v)
                 r2 == populateSlice(positionals, tokens, pos, 0, between,
                                     r1.v)
             IN  IF r1.err # "nil" THEN r1
                 ELSE IF r2.err # "nil" THEN r2
                 ELSE populateRange(positionals, tokens, pos + 1,
                                    before + 1, after, r2.v)

\* lines 817-848: the positional field at index pos (from 1) is the slice
populateOneSlice(positionals, tokens, pos, v) ==
    LET before  == pos - 1
        after   == Len(positionals) - pos
        between == Len(tokens) - before - after
    IN  IF between < 0 THEN [v |-> v, err |-> "ArityMismatch"]
        ELSE LET r1 == populateRange(positionals, tokens, 1, 1, before, v)
                 r2 == populateSlice(positionals, tokens, pos, 0, between,
                                     r1.v)
             IN  IF r1.err # "nil" THEN r1
                 ELSE IF r2.err # "nil" THEN r2
                 ELSE populateRange(positionals, tokens, pos + 1,
                                    Len(tokens) - after + 1, after, r2.v)

\* populatePositionals: [v, err]
populatePositionals(positionals, tokens, v) ==
    LET cnt == sliceCount(positionals)
        pos == slicePos(positionals)
    IN  IF cnt > 1 THEN [v |-> v, err |-> "SchemaError"]
        ELSE IF cnt = 0 THEN populateNoSlice(positionals, tokens, v)
        ELSE populateOneSlice(positionals, tokens, pos, v)

(***************************************************************************)
(* The inputs of the model                                                 *)
(***************************************************************************)

\* the longest token slice passed to populateFromSlice
MaxTokens == 3

Field(name, kind, elem, hasFlag, flagTag, defaultval, ignore) ==
    [Name |-> name, kind |-> kind, elem |-> elem, hasFlag |-> hasFlag,
     flagTag |-> flagTag, defaultval |-> defaultval, format |-> <<>>,
     ignore |-> ignore]

\* the field with an arg-format tag
WithFormat(field, format) == [field EXCEPT !.format = format]

\* struct {
\*     A    bool `arg-flag:"-a"`
\*     P    bool `arg-flag:"-p"`
\*     B    int  `arg-flag:"-b" arg-default:"7"`
\*     N    int  `arg-flag:"-n"`
\*     Rest []string
\* }
flagArgs ==
    << Field("A", "scalar", "bool", TRUE, << <<"-", "a">> >>, <<>>, FALSE),
       Field("P", "scalar", "bool", TRUE, << <<"-", "p">> >>, <<>>, FALSE),
       Field("B", "scalar", "int", TRUE, << <<"-", "b">> >>, <<"7">>, FALSE),
       Field("N", "scalar", "int", TRUE, << <<"-", "n">> >>, <<>>, FALSE),
       Field("Rest", "slice", "string", FALSE, <<>>, <<>>, FALSE) >>

\* the tokens of the slices passed with flagArgs
flagTokens ==
    { <<"-", "a">>, <<"-", "b">>, <<"-", "a", "b", "3">>,
      <<"-", "a", "p", "b">>, <<"-", "a", "x">>, <<"-", "x", "1">>,
      <<"-", "-">>, <<"9">>, <<"-">>, <<>> }

\* struct {
\*     Flag2    bool   `arg-flag:"-B" arg-default:"true"`
\*     Counter1 int    `arg-flag:"+c"`
\*     Counter2 int    `arg-flag:"+C" arg-default:"7"`
\*     Name2    string `arg-flag:"-S --Name" arg-default:"u"`
\*     Ints     []int  `arg-flag:"-v" arg-default:"3"`
\*     Rest     []string
\* }
defaultArgs ==
    << Field("Flag2", "scalar", "bool", TRUE, << <<"-", "B">> >>,
             <<"t", "r", "u", "e">>, FALSE),
       Field("Counter1", "scalar", "int", TRUE, << <<"+", "c">> >>,
             <<>>, FALSE),
       Field("Counter2", "scalar", "int", TRUE, << <<"+", "C">> >>,
             <<"7">>, FALSE),
       Field("Name2", "scalar", "string", TRUE,
             << <<"-", "S">>, <<"-", "-", "N", "a", "m", "e">> >>,
             <<"u">>, FALSE),
       Field("Ints", "slice", "int", TRUE, << <<"-", "v">> >>,
             <<"3">>, FALSE),
       Field("Rest", "slice", "string", FALSE, <<>>, <<>>, FALSE) >>

\* struct {
\*     Counter int    `arg-flag:"+C" arg-default:"x"`
\*     Name2   string `arg-flag:"-S" arg-default:"u"`
\*     Rest    []string
\* }
badDefaultArgs ==
    << Field("Counter", "scalar", "int", TRUE, << <<"+", "C">> >>,
             <<"x">>, FALSE),
       Field("Name2", "scalar", "string", TRUE, << <<"-", "S">> >>,
             <<"u">>, FALSE),
       Field("Rest", "slice", "string", FALSE, <<>>, <<>>, FALSE) >>

\* the tokens of the slices passed with defaultArgs and badDefaultArgs
defaultTokens ==
    { <<"+", "C">>, <<"+", "C", "9">>, <<"-", "B">>, <<"-", "S">>,
      <<"9">>, <<>>, <<"-", "-">> }

\* the slices of at most n tokens of a set
Slices(toks, n) == UNION {[1..k -> toks] : k \in 0..n}

\* the zero value of a struct field
zeroValue(field) ==
    IF field.kind = "slice" THEN [isNil |-> TRUE, elems |-> <<>>]
    ELSE CASE field.elem = "bool"     -> FALSE
           [] field.elem = "string"   -> <<>>
           [] field.elem = "float64"  -> NormFloat(0, 0)
           [] field.elem = "time"     -> timeOf(1, 1, 1, 0, 0, 0)
           [] field.elem = "duration" -> [sec |-> 0, nsec |-> 0]
           [] OTHER                   -> 0

\* a value a caller may have stored in a variable of type elem
setElem(elem) ==
    CASE elem = "bool"     -> TRUE
      [] elem = "string"   -> <<"y">>
      [] elem = "float64"  -> NormFloat(5, 0)
      [] elem = "time"     -> timeOf(2005, 5, 5, 5, 5, 5)
      [] elem = "duration" -> [sec |-> 5, nsec |-> 0]
      [] OTHER             -> 5

\* a value a caller may have stored in a field before the call
setValue(field) ==
    IF field.kind = "slice"
    THEN [isNil |-> FALSE, elems |-> <<setElem(field.elem)>>]
    ELSE setElem(field.elem)

fieldNames(fields) == {fields[i].Name : i \in 1..Len(fields)}

fieldNamed(fields, name) ==
    fields[CHOOSE i \in 1..Len(fields) : fields[i].Name = name]

\* the struct the caller passes: new (all zero) or with every field set
structValue(fields, isSet) ==
    [n \in fieldNames(fields) |->
        IF isSet THEN setValue(fieldNamed(fields, n))
        ELSE zeroValue(fieldNamed(fields, n))]

(***************************************************************************)
(* populateFromSlice as a state machine                                    *)
(*                                                                         *)
(*   fields, tokens, isFused, orig   the arguments: the struct type of     *)
(*       data, the tokens, the mode, and the value of *data at the call    *)
(*   data            the struct that data points to                        *)
(*   options, positionals   the results of analyzeStruct                   *)
(*   mf              the locals of processMaybeFlags                       *)
(*   retainedOpts, posTokens   the results of processTokens                *)
(*   err             the error populateFromSlice returns, "nil" for none   *)
(*   pc              the call populateFromSlice makes next, or "done"      *)
(***************************************************************************)
VARIABLES fields, tokens, isFused, orig, data, options, positionals, mf,
          retainedOpts, posTokens, err, pc

vars == <<fields, tokens, isFused, orig, data, options, positionals, mf,
          retainedOpts, posTokens, err, pc>>

args == <<fields, tokens, isFused, orig>>

InitLocals ==
    /\ data = orig
    /\ options = <<>>
    /\ positionals = <<>>
    /\ mf = loopInit(<<>>)
    /\ retainedOpts = <<>>
    /\ posTokens = <<>>
    /\ err = "nil"
    /\ pc = "analyzeStruct"

Init ==
    /\ fields = flagArgs
    /\ tokens \in Slices(flagTokens, MaxTokens)
    /\ isFused \in BOOLEAN
    /\ orig = structValue(fields, FALSE)
    /\ InitLocals

\* the defaults are populated in fused mode too
afterAnalyzeAlways(fused) == "populateDefaults"

\* lines 265-266: what follows analyzeStruct, "if !isFused"
afterAnalyze(fused) ==
    IF ~fused THEN "populateDefaults" ELSE "processTokens"

\* lines 260-266
AnalyzeStruct ==
    /\ pc = "analyzeStruct"
    /\ LET r == analyzeStruct(fields)
       IN  /\ options' = r.options
           /\ positionals' = r.positionals
           /\ err' = r.err
           /\ pc' = IF r.err # "nil" THEN "done" ELSE afterAnalyze(isFused)
    /\ UNCHANGED <<args, data, mf, retainedOpts, posTokens>>

\* lines 265-270
PopulateDefaults ==
    /\ pc = "populateDefaults"
    /\ \E order \in keyOrders(defaultKeys(options)) :
          LET r == populateDefaults(options, data, order)
          IN  /\ data' = r.v
              /\ err' = r.err
              /\ pc' = IF r.err # "nil" THEN "done" ELSE "processTokens"
    /\ UNCHANGED <<args, options, positionals, mf, retainedOpts, posTokens>>

\* lines 273, 311, 522-532 and 577: processMaybeFlags is entered
EnterProcessTokens ==
    /\ pc = "processTokens"
    /\ mf' = loopInit(beforeEndFlags(tokens))
    /\ pc' = "processMaybeFlags"
    /\ UNCHANGED <<args, data, options, positionals, retainedOpts,
                   posTokens, err>>

\* when the loop fails, the flag assignments recorded before the failing
\* token are applied to the struct
LoopIterationApplies ==
    /\ pc = "processMaybeFlags"
    /\ loopCond(mf)
    /\ LET st == loopBody(mf, options, isFused)
       IN  /\ mf' = st
           /\ IF st.err # "nil"
              THEN /\ retainedOpts' = st.flags
                   /\ posTokens' = st.positionals \o afterEndFlags(tokens)
                   /\ err' = st.err
                   /\ pc' = "done"
                   /\ data' = populateOptions(mf.flags, data).v
              ELSE UNCHANGED <<retainedOpts, posTokens, err, pc, data>>
    /\ UNCHANGED <<args, options, positionals>>

\* one iteration of the loop of processMaybeFlags; when it returns an error,
\* processTokens3 appends the tokens after "--" and populateFromSlice
\* returns the error (lines 535-539 and 274-276)
LoopIteration ==
    /\ pc = "processMaybeFlags"
    /\ loopCond(mf)
    /\ LET st == loopBody(mf, options, isFused)
       IN  /\ mf' = st
           /\ IF st.err # "nil"
              THEN /\ retainedOpts' = st.flags
                   /\ posTokens' = st.positionals \o afterEndFlags(tokens)
                   /\ err' = st.err
                   /\ pc' = "done"
              ELSE UNCHANGED <<retainedOpts, posTokens, err, pc>>
    /\ UNCHANGED <<args, data, options, positionals>>

\* the loop ends, processMaybeFlags and processTokens3 return (lines 654
\* and 535-539)
ReturnProcessTokens ==
    /\ pc = "processMaybeFlags"
    /\ ~loopCond(mf)
    /\ retainedOpts' = mf.flags
    /\ posTokens' = mf.positionals \o afterEndFlags(tokens)
    /\ pc' = "populateOptions"
    /\ UNCHANGED <<args, data, options, positionals, mf, err>>

\* lines 279-281
PopulateOptions ==
    /\ pc = "populateOptions"
    /\ LET r == populateOptions(retainedOpts, data)
       IN  /\ data' = r.v
           /\ err' = r.err
           /\ pc' = IF r.err # "nil" THEN "done" ELSE "populatePositionals"
    /\ UNCHANGED <<args, options, positionals, mf, retainedOpts, posTokens>>

\* when populatePositionals fails the struct is set back to what the caller
\* passed
PopulatePositionalsRollsBack ==
    /\ pc = "populatePositionals"
    /\ LET r == populatePositionals(positionals, posTokens, data)
       IN  /\ data' = IF r.err # "nil" THEN orig ELSE r.v
           /\ err' = r.err
           /\ pc' = "done"
    /\ UNCHANGED <<args, options, positionals, mf, retainedOpts, posTokens>>

\* lines 282-286
PopulatePositionals ==
    /\ pc = "populatePositionals"
    /\ LET r == populatePositionals(positionals, posTokens, data)
       IN  /\ data' = r.v
           /\ err' = r.err
           /\ pc' = "done"
    /\ UNCHANGED <<args, options, positionals, mf, retainedOpts, posTokens>>

Next ==
    \/ AnalyzeStruct
    \/ PopulateDefaults
    \/ EnterProcessTokens
    \/ LoopIteration
    \/ ReturnProcessTokens
    \/ PopulateOptions
    \/ PopulatePositionals

Spec == Init /\ [][Next]_vars

\* the calls with the structs that declare defaults, on a new struct and on
\* one whose fields the caller has set
InitDefaults ==
    /\ fields \in {defaultArgs, badDefaultArgs}
    /\ tokens \in Slices(defaultTokens, MaxTokens)
    /\ isFused \in BOOLEAN
    /\ orig \in {structValue(fields, FALSE), structValue(fields, TRUE)}
    /\ InitLocals

SpecDefaults == InitDefaults /\ [][Next]_vars

\* populateFromSlice as a function of its arguments and of the order in
\* which populateDefaults visits the option map: [v, err], v the struct as
\* the call leaves it
populateFromSlice(fs, toks, fused, v, order) ==
    LET a == analyzeStruct(fs)
        d == IF afterAnalyze(fused) = "populateDefaults"
             THEN populateDefaults(a.options, v, order)
             ELSE [v |-> v, err |-> "nil"]
        t == processTokens(a.options, toks, fused)
        o == populateOptions(t.flags, d.v)
    IN  IF a.err # "nil" THEN [v |-> v, err |-> a.err]
        ELSE IF d.err # "nil" THEN d
        ELSE IF t.err # "nil" THEN [v |-> d.v, err |-> t.err]
        ELSE IF o.err # "nil" THEN o
        ELSE populatePositionals(a.positionals, t.positionals, o.v)

(***************************************************************************)
(* Properties                                                              *)
(***************************************************************************)

\* processTokens has just returned to populateFromSlice, with or without an
\* error: retainedOpts, posTokens and mf.err are what it returned
TokensReturned == pc = "populateOptions" \/ (pc = "done" /\ mf.err # "nil")

\* position k holds the left-most "--" of the tokens
FirstMarkerAt(k) ==
    /\ k \in 1..Len(tokens)
    /\ tokens[k] = <<"-", "-">>
    /\ \A j \in 1..(k - 1) : tokens[j] # <<"-", "-">>

\* C1: for tokens = T ++ ["--"] ++ R, where T holds no "--", processTokens
\* returns the flag assignments and the error of processTokens(T), and the
\* positionals of processTokens(T) followed by R verbatim: the first "--" is
\* not emitted, and the tokens of R (further "--" and flags included) are.
C1_EndOfOptions ==
    TokensReturned =>
        \A k \in 1..Len(tokens) :
            FirstMarkerAt(k) =>
                LET T  == SubSeq(tokens, 1, k - 1)
                    R  == SubSeq(tokens, k + 1, Len(tokens))
                    rT == processTokens(options, T, isFused)
                IN  /\ retainedOpts = rT.flags
                    /\ mf.err = rT.err
                    /\ posTokens = rT.positionals \o R

\* C1 witness: a successful return where a flag was resolved before the
\* first "--" and a registered flag follows it and is returned as positional
C1_Witness ==
    /\ pc = "populateOptions"
    /\ Len(retainedOpts) > 0
    /\ \E k \in 1..Len(tokens) :
          /\ FirstMarkerAt(k)
          /\ \E j \in (k + 1)..Len(tokens) : tokens[j] \in DOMAIN options
          /\ posTokens = SubSeq(tokens, k + 1, Len(tokens))

\* an iteration of the loop of processMaybeFlags is about to run
Iterating == pc = "processMaybeFlags" /\ loopCond(mf)

\* the token that iteration classifies, and the queue it leaves behind it
Pending == IF mf.token = <<>> THEN Head(mf.tokens) ELSE mf.token

QueueAfter == IF mf.token = <<>> THEN Tail(mf.tokens) ELSE mf.tokens

PendingKey == chopToken(Pending)[1]

PendingRest == chopToken(Pending)[2]

\* the token has the shape of a flag: a "-" or "+" and at least one more
\* character, and it is not "--"
FlagShaped(t) == Len(t) >= 2 /\ t[1] \in {"-", "+"} /\ t # <<"-", "-">>

\* C2: an iteration that takes a flag-shaped token from the queue (so not a
\* token re-synthesized from a compound flag) whose key is not in the option
\* map returns no error, appends the whole token to the positionals, records
\* no flag, and goes on with the rest of the queue; in both modes.
C2_UnknownFlagIsPositional ==
    [][ ( /\ Iterating
          /\ mf.token = <<>>
          /\ FlagShaped(Head(mf.tokens))
          /\ PendingKey \notin DOMAIN options )
        => ( /\ mf'.err = "nil"
             /\ err' = "nil"
             /\ pc' = "processMaybeFlags"
             /\ mf'.positionals = Append(mf.positionals, Head(mf.tokens))
             /\ mf'.flags = mf.flags
             /\ mf'.tokens = Tail(mf.tokens)
             /\ mf'.token = <<>> ) ]_vars

\* C2 witness: the unknown flag "-x1", whose key "-x" differs from the
\* token, has been emitted as a positional and tokens are left to process
C2_Witness ==
    /\ pc = "processMaybeFlags"
    /\ mf.err = "nil"
    /\ Len(mf.tokens) > 0
    /\ Len(mf.positionals) > 0
    /\ mf.positionals[Len(mf.positionals)] = <<"-", "x", "1">>

\* "-c" is a registered flag of a boolean field / of a field with a value
IsBoolShort(c) ==
    /\ <<"-", c>> \in DOMAIN options
    /\ options[<<"-", c>>].baseType = "bool"

IsValueShort(c) ==
    /\ <<"-", c>> \in DOMAIN options
    /\ options[<<"-", c>>].baseType # "bool"

\* t is "-", then characters 2..n that are boolean short flags (at least
\* one), then at n+1 a short flag that takes a value, then any characters
ChainAt(t, n) ==
    /\ n >= 2 /\ n + 1 <= Len(t)
    /\ t[1] = "-"
    /\ \A j \in 2..n : IsBoolShort(t[j])
    /\ IsValueShort(t[n + 1])

IsChain(t) == \E n \in 2..Len(t) : ChainAt(t, n)

\* the chain with each flag issued as a token of its own: "-ab3" is
\* "-a" "-b3"
Expand(t) ==
    LET n == CHOOSE n \in 2..Len(t) : ChainAt(t, n)
    IN  [j \in 1..(n - 1) |-> <<"-", t[j + 1]>>]
            \o << <<"-">> \o SubSeq(t, n + 1, Len(t)) >>

PendingIncomplete ==
    /\ Iterating
    /\ PendingKey \in DOMAIN options
    /\ options[PendingKey].baseType # "bool"
    /\ PendingRest = <<>>

\* the fieldInfo recorded for the pending flag with raw value val
Assigned(val) == [options[PendingKey] EXCEPT !.flag = PendingKey, !.value = val]

\* C5: when a flag that takes a value has no rest and no token is left in
\* the queue, then in standard mode processMaybeFlags returns the
\* InsufficientTokens error and populateFromSlice fails with it; in fused
\* mode the iteration returns no error and records the flag with the default
\* string of its field as raw value.  So ["-b"], with B int and default "7",
\* fails in standard mode and sets B to 7 in fused mode.
C5_LastFlagWithoutValue ==
    /\ [][ (PendingIncomplete /\ QueueAfter = <<>>)
           => IF isFused
              THEN /\ mf'.err = "nil"
                   /\ err' = "nil"
                   /\ mf'.flags = Append(mf.flags,
                          Assigned(options[PendingKey].defaultval))
                   /\ mf'.positionals = mf.positionals
                   /\ ~loopCond(mf')
              ELSE /\ mf'.err = "InsufficientTokens"
                   /\ err' = "InsufficientTokens"
                   /\ pc' = "done"
                   /\ data' = data ]_vars
    /\ []( (pc = "done" /\ tokens = << <<"-", "b">> >>)
           => IF isFused THEN err = "nil" /\ data["B"] = 7
              ELSE err = "InsufficientTokens" )

\* C5 witness: fused mode has resolved the last token "-b" to the default
\* "7" and the parse has ended with B = 7
C5_Witness ==
    /\ pc = "done"
    /\ err = "nil"
    /\ isFused
    /\ Len(tokens) > 0
    /\ tokens[Len(tokens)] = <<"-", "b">>
    /\ Len(retainedOpts) > 0
    /\ retainedOpts[Len(retainedOpts)].value = <<"7">>
    /\ data["B"] = 7

\* C6: in standard mode, when a flag that takes a value has no rest and the
\* queue is not empty, the next token of the queue becomes the raw value of
\* the flag as it is, whatever its shape, and leaves the queue: it is not
\* classified and not appended to the positionals.
C6_NextTokenIsValue ==
    [][ (PendingIncomplete /\ ~isFused /\ QueueAfter # <<>>)
        => ( /\ mf'.err = "nil"
             /\ mf'.flags = Append(mf.flags, Assigned(Head(QueueAfter)))
             /\ mf'.tokens = Tail(QueueAfter)
             /\ mf'.token = <<>>
             /\ mf'.positionals = mf.positionals ) ]_vars

\* C6 witness: standard mode has returned one assignment, whose raw value
\* is the registered flag "-a", and no positional, from two tokens
C6_Witness ==
    /\ pc = "populateOptions"
    /\ ~isFused
    /\ Len(tokens) = 2
    /\ posTokens = <<>>
    /\ Len(retainedOpts) = 1
    /\ retainedOpts[1].Name = "B"
    /\ retainedOpts[1].value = <<"-", "a">>

\* the tokens before the left-most "--", all tokens when there is none
BeforeMarker ==
    IF \E k \in 1..Len(tokens) : FirstMarkerAt(k)
    THEN SubSeq(tokens, 1, (CHOOSE k \in 1..Len(tokens) : FirstMarkerAt(k)) - 1)
    ELSE tokens

\* what fused mode returns for the token t given alone
Alone(t) == processMaybeFlags(<<t>>, options, TRUE)

\* the flag assignments, and the positionals, of the tokens of ts when each
\* is given alone, in order
RECURSIVE FlagsEachAlone(_)
FlagsEachAlone(ts) ==
    IF ts = <<>> THEN <<>>
    ELSE Alone(Head(ts)).flags \o FlagsEachAlone(Tail(ts))

RECURSIVE PositionalsEachAlone(_)
PositionalsEachAlone(ts) ==
    IF ts = <<>> THEN <<>>
    ELSE Alone(Head(ts)).positionals \o PositionalsEachAlone(Tail(ts))

\* C7: in fused mode no flag consumes a following token.  Every token before
\* "--" is classified by itself: the flag assignments and positionals
\* returned are those of the tokens given one at a time, in order, and an
\* error is the error of one token alone.  A registered flag that takes a
\* value and has no rest is recorded with the default string of its field.
\* So ["-b", "9"] with default "7" gives the raw value "7" and the
\* positional "9".
C7_FusedNeverConsumes ==
    (TokensReturned /\ isFused) =>
        /\ mf.err = "nil" =>
              /\ retainedOpts = FlagsEachAlone(BeforeMarker)
              /\ mf.positionals = PositionalsEachAlone(BeforeMarker)
        /\ mf.err # "nil" =>
              \E i \in 1..Len(BeforeMarker) :
                  Alone(BeforeMarker[i]).err = mf.err
        /\ \A i \in 1..Len(BeforeMarker) :
              LET t == BeforeMarker[i]
              IN  (t \in DOMAIN options /\ options[t].baseType # "bool")
                  => /\ Alone(t).err = "nil"
                     /\ Alone(t).positionals = <<>>
                     /\ Alone(t).flags =
                            << [options[t] EXCEPT
                                   !.flag = t,
                                   !.value = options[t].defaultval] >>
        /\ tokens = << <<"-", "b">>, <<"9">> >> =>
              /\ Len(retainedOpts) = 1
              /\ retainedOpts[1].value = <<"7">>
              /\ posTokens = << <<"9">> >>

\* C7 witness: fused mode has returned the default "7" for "-b" and the
\* following token "9" as a positional
C7_Witness ==
    /\ pc = "populateOptions"
    /\ isFused
    /\ tokens = << <<"-", "b">>, <<"9">> >>
    /\ Len(retainedOpts) = 1
    /\ retainedOpts[1].value = <<"7">>
    /\ posTokens = << <<"9">> >>

\* C8: in both modes, an iteration that classifies a registered flag of a
\* boolean field with no rest records the flag with an empty raw value and
\* takes nothing else from the queue: the token after it is the next one to
\* be classified.  So ["-a", "9"] gives one assignment with empty raw value
\* and the positional "9".
C8_BoolNeverConsumes ==
    /\ [][ ( /\ Iterating
             /\ PendingKey \in DOMAIN options
             /\ options[PendingKey].baseType = "bool"
             /\ PendingRest = <<>> )
           => ( /\ mf'.err = "nil"
                /\ mf'.flags = Append(mf.flags, Assigned(<<>>))
                /\ mf'.tokens = QueueAfter
                /\ mf'.token = <<>>
                /\ mf'.positionals = mf.positionals ) ]_vars
    /\ []( (TokensReturned /\ tokens = << <<"-", "a">>, <<"9">> >>)
           => /\ mf.err = "nil"
              /\ Len(retainedOpts) = 1
              /\ retainedOpts[1].value = <<>>
              /\ posTokens = << <<"9">> >> )

\* C8 witness: standard mode has returned one assignment with empty raw
\* value for "-a" and the following token "9" as a positional
C8_Witness ==
    /\ pc = "populateOptions"
    /\ ~isFused
    /\ tokens = << <<"-", "a">>, <<"9">> >>
    /\ Len(retainedOpts) = 1
    /\ retainedOpts[1].Name = "A"
    /\ retainedOpts[1].value = <<>>
    /\ posTokens = << <<"9">> >>

\* the option fields of the struct that are not slices
ScalarOptions ==
    {i \in 1..Len(fields) :
        /\ ~fields[i].ignore
        /\ fields[i].hasFlag
        /\ fields[i].flagTag # <<>>
        /\ fields[i].kind = "scalar"}

\* the flag assignments returned for the field called name, and the raw
\* value of the last of them
Assignments(name) ==
    {j \in 1..Len(retainedOpts) : retainedOpts[j].Name = name}

LastRaw(name) ==
    retainedOpts[CHOOSE j \in Assignments(name) :
                     \A k \in Assignments(name) : k <= j].value

\* the value of type elem that the string s stands for
Converted(elem, s) ==
    CASE elem = "bool"   -> TRUE
      [] elem = "string" -> s
      [] elem = "int"    -> Atoi(s).val

Convertible(elem, s) == elem = "int" => Atoi(s).err = "nil"

\* standard mode has parsed the tokens without error
StandardDone == pc = "done" /\ err = "nil" /\ ~isFused

\* what C9 says of a field no flag assignment was resolved for
HoldsDefault(f) ==
    data[f.Name] = IF f.defaultval # <<>>
                   THEN Converted(f.elem, f.defaultval)
                   ELSE orig[f.Name]

\* C9 as stated: after a successful parse in standard mode, every option
\* field that is not a slice holds the conversion of its default string when
\* no flag of it was resolved (its value from before the call when it has no
\* default), and the token-supplied value of its last flag otherwise.
C9_AsStated ==
    StandardDone =>
        \A i \in ScalarOptions :
            LET f == fields[i]
            IN  IF Assignments(f.Name) = {} THEN HoldsDefault(f)
                ELSE data[f.Name] = Converted(f.elem, LastRaw(f.Name))

\* C9 amended: as C9, but a resolved flag whose raw value is the empty string
\* (the token after the flag is "") leaves the field with the conversion of
\* its default string, not of the empty token.
C9_DefaultsThenOverwritten ==
    StandardDone =>
        \A i \in ScalarOptions :
            LET f == fields[i]
            IN  IF Assignments(f.Name) = {} THEN HoldsDefault(f)
                ELSE data[f.Name] =
                         Converted(f.elem,
                             IF LastRaw(f.Name) = <<>> THEN f.defaultval
                             ELSE LastRaw(f.Name))

\* C9 witness: on a struct whose fields the caller had set to 5 and "y",
\* Counter2 (absent, default "7") holds 7, Counter1 (absent, no default) is
\* as the caller left it, and Name2 (default "u") holds the value "9" of
\* its flag "-S"
C9_Witness ==
    /\ StandardDone
    /\ fields = defaultArgs
    /\ orig = structValue(fields, TRUE)
    /\ Assignments("Name2") # {}
    /\ data["Counter2"] = 7
    /\ data["Counter1"] = 5
    /\ data["Name2"] = <<"9">>

\* C10: in fused mode the defaults are not populated: the struct is as the
\* caller passed it until populateOptions runs; populateOptions fails if and
\* only if the raw value of some flag assignment cannot be converted (for a
\* flag without rest that raw value is the default string, C7); after it, a
\* field no flag was resolved for is as the caller passed it, and a field with
\* a flag holds the conversion of the raw value of its last assignment.  With
\* Counter int, flag "+C", default "x": no token and ["+C9"] succeed (the
\* latter with Counter = 9), ["+C"] fails.
C10_FusedDefaultOnlyWhenBare ==
    /\ [](isFused => pc # "populateDefaults")
    /\ []( ( /\ isFused
             /\ pc \in {"analyzeStruct", "processTokens",
                        "processMaybeFlags", "populateOptions"} )
           => data = orig )
    /\ [][ (isFused /\ pc = "populateOptions")
           => ( err' = "nil" <=>
                  \A j \in 1..Len(retainedOpts) :
                      Convertible(retainedOpts[j].baseType,
                                  retainedOpts[j].value) ) ]_vars
    /\ []( (isFused /\ pc = "populatePositionals")
           => \A i \in ScalarOptions :
                  LET f == fields[i]
                  IN  IF Assignments(f.Name) = {}
                      THEN data[f.Name] = orig[f.Name]
                      ELSE data[f.Name] =
                               Converted(f.elem, LastRaw(f.Name)) )
    /\ []( (isFused /\ pc = "done" /\ fields = badDefaultArgs)
           => /\ tokens = <<>> => (err = "nil" /\ data = orig)
              /\ tokens = << <<"+", "C">> >> => err = "ConversionError"
              /\ tokens = << <<"+", "C", "9">> >>
                     => (err = "nil" /\ data["Counter"] = 9) )

\* C10 witness: fused mode, default "x" that is no int: the parse of
\* ["+C9", "-S"] has succeeded with Counter = 9 from the fused value and
\* Name2 = "u" from the default of the flag given without a value
C10_Witness ==
    /\ pc = "done"
    /\ err = "nil"
    /\ isFused
    /\ fields = badDefaultArgs
    /\ orig = structValue(fields, TRUE)
    /\ tokens = << <<"+", "C", "9">>, <<"-", "S">> >>
    /\ data["Counter"] = 9
    /\ data["Name2"] = <<"u">>

(***************************************************************************)
(* Repeated flags and slices of flag values                                *)
(***************************************************************************)

\* struct {
\*     Flags   []bool   `arg-flag:"-v"`
\*     Names   []string `arg-flag:"-s"`
\*     Counter int      `arg-flag:"+c --count" arg-default:"3"`
\*     Rest    []string
\* }
sliceArgs ==
    << Field("Flags", "slice", "bool", TRUE, << <<"-", "v">> >>, <<>>, FALSE),
       Field("Names", "slice", "string", TRUE, << <<"-", "s">> >>,
             <<>>, FALSE),
       Field("Counter", "scalar", "int", TRUE,
             << <<"+", "c">>, <<"-", "-", "c", "o", "u", "n", "t">> >>,
             <<"3">>, FALSE),
       Field("Rest", "slice", "string", FALSE, <<>>, <<>>, FALSE) >>

\* the tokens of the slices passed with sliceArgs
sliceTokens ==
    { <<"-", "v">>, <<"-", "v", "v", "v">>, <<"-", "s">>, <<"-", "s", "a">>,
      <<"+", "c", "7">>, <<"+", "c">>, <<"-", "-", "c", "o", "u", "n", "t">>,
      <<"9">>, <<"-", "-">> }

InitSlices ==
    /\ fields = sliceArgs
    /\ tokens \in Slices(sliceTokens, MaxTokens)
    /\ isFused \in BOOLEAN
    /\ orig \in {structValue(fields, FALSE), structValue(fields, TRUE)}
    /\ InitLocals

SpecSlices == InitSlices /\ [][Next]_vars

\* populateOptions has returned without error
OptionsApplied ==
    pc = "populatePositionals" \/ (pc = "done" /\ err = "nil")

\* the string convertToType converts for a flag assignment
EffectiveRaw(info) ==
    IF info.value = <<>> THEN info.defaultval ELSE info.value

\* the last flag assignment returned for the field called name
LastAssignment(name) ==
    retainedOpts[CHOOSE j \in Assignments(name) :
                     \A k \in Assignments(name) : k <= j]

\* C11: when populateOptions has succeeded, every option field that is not a
\* slice and has flag assignments holds the value of the last of them, the
\* assignments being in the order of the flags in the tokens, whatever stands
\* between them.  With Counter int, flags "+c" and "--count", default "3":
\* ["+c7", "+c", "9"] and ["--count", "7", "+c", "9"] give 9, ["+c", "9",
\* "+c7"] gives 7, and in fused mode ["+c7", "9", "+c"] gives 3, the value
\* of the last flag, with "9" a positional.
C11_LastOccurrenceWins ==
    OptionsApplied =>
        /\ \A i \in ScalarOptions :
               Assignments(fields[i].Name) # {} =>
                   data[fields[i].Name] =
                       Converted(fields[i].elem,
                           EffectiveRaw(LastAssignment(fields[i].Name)))
        /\ (fields = sliceArgs /\ ~isFused) =>
               /\ tokens = << <<"+", "c", "7">>, <<"+", "c">>, <<"9">> >>
                      => data["Counter"] = 9
               /\ tokens = << <<"-", "-", "c", "o", "u", "n", "t">>, <<"7">>,
                              <<"+", "c">>, <<"9">> >>
                      => data["Counter"] = 9
               /\ tokens = << <<"+", "c">>, <<"9">>, <<"+", "c", "7">> >>
                      => data["Counter"] = 7
        /\ (fields = sliceArgs /\ isFused) =>
               /\ tokens = << <<"+", "c", "7">>, <<"9">>, <<"+", "c">> >>
                      => data["Counter"] = 3
               /\ tokens = << <<"+", "c">>, <<"9">>, <<"+", "c", "7">> >>
                      => data["Counter"] = 7

\* C11 witness: fused mode has parsed ["+c7", "9", "+c"]: two assignments to
\* Counter with different values and a positional between them, and Counter
\* holds the value of the second
C11_Witness ==
    /\ pc = "done"
    /\ err = "nil"
    /\ isFused
    /\ tokens = << <<"+", "c", "7">>, <<"9">>, <<"+", "c">> >>
    /\ Cardinality(Assignments("Counter")) = 2
    /\ retainedOpts[1].value = <<"7">>
    /\ data["Counter"] = 3
    /\ data["Rest"].elems = orig["Rest"].elems \o << <<"9">> >>

\* the option fields of the struct that are slices
SliceOptions ==
    {i \in 1..Len(fields) :
        /\ ~fields[i].ignore
        /\ fields[i].hasFlag
        /\ fields[i].flagTag # <<>>
        /\ fields[i].kind = "slice"}

\* the flags of a struct field
FlagsOf(f) == {f.flagTag[i] : i \in 1..Len(f.flagTag)}

\* the tokens of ts that stand where a flag may stand: in standard mode the
\* token after a flag that takes a value and has none attached is that value
RECURSIVE Classified(_)
Classified(ts) ==
    IF ts = <<>> THEN <<>>
    ELSE IF /\ ~isFused
            /\ Len(ts) >= 2
            /\ Head(ts) \in DOMAIN options
            /\ options[Head(ts)].baseType # "bool"
    THEN <<Head(ts)>> \o Classified(Tail(Tail(ts)))
    ELSE <<Head(ts)>> \o Classified(Tail(ts))

\* the number of times token t gives a flag of field f: once per character
\* for a compound token of flags of a boolean field ("-vvv"), once for a
\* token whose key is a flag of a field with a value
OccurrencesIn(t, f) ==
    IF f.elem = "bool"
    THEN IF /\ Len(t) >= 2
            /\ t[1] = "-"
            /\ \A i \in 2..Len(t) : <<"-", t[i]>> \in FlagsOf(f)
         THEN Len(t) - 1
         ELSE 0
    ELSE IF chopToken(t)[1] \in FlagsOf(f) THEN 1 ELSE 0

RECURSIVE Occurrences(_, _)
Occurrences(ts, f) ==
    IF ts = <<>> THEN 0
    ELSE OccurrencesIn(Head(ts), f) + Occurrences(Tail(ts), f)

\* the converted values of the flag assignments opts made to field f, in
\* order
RECURSIVE ValuesOf(_, _)
ValuesOf(opts, f) ==
    IF opts = <<>> THEN <<>>
    ELSE (IF Head(opts).Name = f.Name
          THEN <<Converted(f.elem, EffectiveRaw(Head(opts)))>>
          ELSE <<>>) \o ValuesOf(Tail(opts), f)

slotField(name) ==
    IF name \in {"S", "X"}
    THEN Field(name, "slice", "string", FALSE, <<>>, <<>>, FALSE)
    ELSE Field(name, "scalar", "int", FALSE, <<>>, <<>>, FALSE)

\* struct {
\*     F       []int  `arg-flag:"-f"`
\*     G       []bool `arg-flag:"-g"`
\*     Ignored []int  `arg-ignore:""`
\*     NoGood  uint   `arg-ignore:"" arg-flag:"-i" arg-default:"3"`
\*     ...            the positional fields named in slots, in order
\* }
layoutArgs(slots) ==
    << Field("F", "slice", "int", TRUE, << <<"-", "f">> >>, <<>>, FALSE),
       Field("G", "slice", "bool", TRUE, << <<"-", "g">> >>, <<>>, FALSE),
       Field("Ignored", "slice", "int", FALSE, <<>>, <<>>, TRUE),
       Field("NoGood", "scalar", "uint", TRUE, << <<"-", "i">> >>,
             <<"3">>, TRUE) >>
        \o [i \in 1..Len(slots) |-> slotField(slots[i])]

\* the positional fields of the structs passed: without a slice, with one
\* slice at each place, and with two slices
layouts ==
    { <<>>, <<"A">>, <<"A", "B">>,
      <<"S">>, <<"A", "S">>, <<"S", "W">>, <<"A", "S", "W">>,
      <<"S", "X">>, <<"A", "S", "B", "X">> }

\* the tokens of the slices passed with these structs
layoutTokens ==
    { <<"1">>, <<"2">>, <<"a">>, <<"-", "f">>, <<"-", "i">>, <<"-", "-">> }

\* a new struct in which the caller has set the ignored fields
layoutValue(fs) ==
    [n \in fieldNames(fs) |->
        IF fieldNamed(fs, n).ignore THEN setValue(fieldNamed(fs, n))
        ELSE zeroValue(fieldNamed(fs, n))]

InitLayouts ==
    /\ fields \in {layoutArgs(slots) : slots \in layouts}
    /\ tokens \in Slices(layoutTokens, MaxTokens)
    /\ isFused \in BOOLEAN
    /\ orig = layoutValue(fields)
    /\ InitLocals

SpecLayouts == InitLayouts /\ [][Next]_vars

\* the value positional field number i takes from token t, and whether there
\* is one
SlotValue(i, t) ==
    Converted(positionals[i].baseType,
              IF t = <<>> THEN positionals[i].defaultval ELSE t)

SlotConvertible(i, t) ==
    Convertible(positionals[i].baseType,
                IF t = <<>> THEN positionals[i].defaultval ELSE t)

\* the names of the positional fields
SlotNames == {positionals[i].Name : i \in 1..Len(positionals)}

\* C13: when no positional field is a slice, populatePositionals fails with
\* the arity error and writes nothing unless there are exactly as many
\* positional tokens as positional fields; with as many, it succeeds if and
\* only if every token converts to the type of its field (it fails with a
\* conversion error otherwise), and on success field number i holds the value
\* of token number i and no other field is written.
C13_NoCollectorArity ==
    [][ ( /\ pc = "populatePositionals"
          /\ \A i \in 1..Len(positionals) : ~positionals[i].isSlice )
        => IF Len(posTokens) = Len(positionals)
           THEN /\ err' = "nil" <=>
                       \A i \in 1..Len(positionals) :
                           SlotConvertible(i, posTokens[i])
                /\ err' \in {"nil", "ConversionError"}
                /\ err' = "nil" =>
                       \A i \in 1..Len(positionals) :
                           data'[positionals[i].Name] =
                               SlotValue(i, posTokens[i])
                /\ \A n \in (DOMAIN data) \ SlotNames : data'[n] = data[n]
           ELSE /\ err' = "ArityMismatch"
                /\ data' = data ]_vars

\* C13 witness: with the positional fields A and B, the two positional
\* tokens "2" and "1" have been assigned: A = 2, B = 1
C13_Witness ==
    /\ pc = "done"
    /\ err = "nil"
    /\ fields = layoutArgs(<<"A", "B">>)
    /\ posTokens = << <<"2">>, <<"1">> >>
    /\ data["A"] = 2
    /\ data["B"] = 1

\* positional field number p is a slice and no other is
OnlySliceAt(p) ==
    /\ p \in 1..Len(positionals)
    /\ positionals[p].isSlice
    /\ \A q \in (1..Len(positionals)) \ {p} : ~positionals[q].isSlice

\* with the slice at p: the positional field that the claim gives token
\* number i of k tokens to (fields and tokens counted from 1)
SlotOfToken(p, i, k) ==
    IF i < p THEN i
    ELSE IF i <= k - (Len(positionals) - p) THEN p
    ELSE i - k + Len(positionals)

\* C14: with one slice among the n positional fields, at index p from 0,
\* and k positional tokens, populatePositionals fails with the arity error
\* and writes nothing when k < n-1.  Otherwise it succeeds if and only if
\* every token converts to the type of its field, and then the first p
\* tokens are in fields 0..p-1 in order, the last n-p-1 tokens in fields
\* p+1..n-1 in order, and the slice holds what it held followed by the
\* k-(n-1) tokens in between, in order; a slice that gets no token is left
\* as it was, and no other field is written.
C14_OneCollectorSplit ==
    [][ pc = "populatePositionals" =>
        \A p \in 1..Len(positionals) :
            OnlySliceAt(p) =>
                LET n == Len(positionals)
                    k == Len(posTokens)
                    m == k - (n - 1)
                    S == positionals[p].Name
                IN  IF k < n - 1
                    THEN /\ err' = "ArityMismatch"
                         /\ data' = data
                    ELSE /\ err' = "nil" <=>
                                \A i \in 1..k :
                                    SlotConvertible(SlotOfToken(p, i, k),
                                                    posTokens[i])
                         /\ err' \in {"nil", "ConversionError"}
                         /\ err' = "nil" =>
                                /\ \A i \in 1..(p - 1) :
                                       data'[positionals[i].Name] =
                                           SlotValue(i, posTokens[i])
                                /\ \A j \in (p + 1)..n :
                                       data'[positionals[j].Name] =
                                           SlotValue(j, posTokens[k - n + j])
                                /\ data'[S].elems =
                                       data[S].elems \o
                                       [i \in 1..m |->
                                           SlotValue(p, posTokens[p - 1 + i])]
                                /\ m = 0 => data'[S] = data[S]
                                /\ m > 0 => ~data'[S].isNil
                         /\ \A f \in (DOMAIN data) \ SlotNames :
                                data'[f] = data[f] ]_vars

\* C14 witness: with the positional fields A, S (the slice) and W, the
\* tokens "2" "a" "1" have been assigned: A = 2, S = ["a"], W = 1
C14_Witness ==
    /\ pc = "done"
    /\ err = "nil"
    /\ fields = layoutArgs(<<"A", "S", "W">>)
    /\ posTokens = << <<"2">>, <<"a">>, <<"1">> >>
    /\ data["A"] = 2
    /\ data["S"] = [isNil |-> FALSE, elems |-> << <<"a">> >>]
    /\ data["W"] = 1

\* the number of positional fields of the struct that are slices, and the
\* number of option fields that are
PositionalSlices ==
    Cardinality({i \in 1..Len(fields) :
                    /\ ~fields[i].ignore
                    /\ ~fields[i].hasFlag
                    /\ fields[i].kind = "slice"})

FlagSlices ==
    Cardinality({i \in 1..Len(fields) :
                    /\ ~fields[i].ignore
                    /\ fields[i].hasFlag
                    /\ fields[i].kind = "slice"})

\* C15: a struct with more than one positional slice is rejected by
\* analyzeStruct: populateFromSlice returns the schema error as its first
\* step after the call, with no token processed, no flag or positional
\* returned and the struct as the caller passed it, however many option
\* fields are slices.  A struct with at most one positional slice (and, in
\* these structs, two option fields that are slices) never gets the schema
\* error.
C15_OnePositionalCollector ==
    /\ PositionalSlices > 1 =>
           /\ pc = "analyzeStruct" \/ (pc = "done" /\ err = "SchemaError")
           /\ data = orig
           /\ mf = loopInit(<<>>)
           /\ retainedOpts = <<>>
           /\ posTokens = <<>>
    /\ PositionalSlices <= 1 => err # "SchemaError"

\* C15 witness: a struct with two option slices and the positional slices S
\* and X has been rejected, with tokens to parse and the struct untouched
C15_Witness ==
    /\ pc = "done"
    /\ err = "SchemaError"
    /\ fields = layoutArgs(<<"A", "S", "B", "X">>)
    /\ FlagSlices = 2
    /\ PositionalSlices = 2
    /\ Len(tokens) > 0
    /\ data = orig

\* the struct type without its ignored fields
NotIgnored(f) == ~f.ignore

Visible == SelectSeq(fields, NotIgnored)

IgnoredFields == {i \in 1..Len(fields) : fields[i].ignore}

\* C16: an ignored field is no part of the schema.  Once analyzeStruct has
\* run, its error, the option map and the positional fields are those of the
\* struct type without the ignored fields (so an ignored slice does not count
\* as positional slice and an ignored field of a type that is not allowed is
\* no error); no flag of an ignored field is a key of the option map and no
\* fieldInfo carries the name of an ignored field; and in both modes the
\* ignored fields of the struct are at every step as the caller passed them.
C16_IgnoredExcluded ==
    /\ \A i \in IgnoredFields : data[fields[i].Name] = orig[fields[i].Name]
    /\ pc # "analyzeStruct" =>
           LET r == analyzeStruct(Visible)
           IN  /\ err = "SchemaError" <=> r.err # "nil"
               /\ options = r.options
               /\ positionals = r.positionals
               /\ \A i \in IgnoredFields :
                      /\ \A k \in DOMAIN options :
                             /\ k \notin FlagsOf(fields[i])
                             /\ options[k].Name # fields[i].Name
                      /\ \A j \in 1..Len(positionals) :
                             positionals[j].Name # fields[i].Name

\* C16 witness: standard mode has parsed tokens that begin with "-i", the
\* flag of the ignored field NoGood (a uint with default "3"): the token is
\* in the positional slice S, and NoGood and the ignored slice are as the
\* caller set them
C16_Witness ==
    /\ pc = "done"
    /\ err = "nil"
    /\ ~isFused
    /\ Len(tokens) > 0
    /\ tokens[1] = <<"-", "i">>
    /\ fields = layoutArgs(<<"S">>)
    /\ data["S"].elems[1] = <<"-", "i">>
    /\ data["NoGood"] = 5
    /\ data["Ignored"] = [isNil |-> FALSE, elems |-> <<5>>]

\* the positions of ts at which a token stands where a flag may stand (see
\* Classified)
RECURSIVE FlagPositionsFrom(_, _)
FlagPositionsFrom(ts, i) ==
    IF i > Len(ts) THEN {}
    ELSE IF /\ ~isFused
            /\ i < Len(ts)
            /\ ts[i] \in DOMAIN options
            /\ options[ts[i]].baseType # "bool"
    THEN {i} \cup FlagPositionsFrom(ts, i + 2)
    ELSE {i} \cup FlagPositionsFrom(ts, i + 1)

FlagPositions == FlagPositionsFrom(BeforeMarker, 1)

\* the option fields of the struct
OptionFields ==
    {i \in 1..Len(fields) : ~fields[i].ignore /\ fields[i].hasFlag}

\* C17: when a token that is exactly a flag of a field stands as a flag in
\* the tokens (before "--", and not taken as the value of the flag before
\* it), the call with that token replaced by any other flag of the same
\* field returns the same error and leaves the same struct, in both modes;
\* a value in the next token goes to the field under either flag.
C17_AliasesInterchangeable ==
    pc = "done" =>
        \A i \in FlagPositions :
            \A f \in OptionFields :
                tokens[i] \in FlagsOf(fields[f]) =>
                    \A alias \in FlagsOf(fields[f]) :
                        \A order \in keyOrders(defaultKeys(options)) :
                            LET r == populateFromSlice(fields,
                                         [tokens EXCEPT ![i] = alias],
                                         isFused, orig, order)
                            IN  /\ r.err = err
                                /\ r.v = data

\* C17 witness: standard mode has parsed ["-v", "--count", "9"] and set
\* Counter to 9, as the call with ["-v", "+c", "9"] does
C17_Witness ==
    /\ pc = "done"
    /\ err = "nil"
    /\ ~isFused
    /\ tokens = << <<"-", "v">>, <<"-", "-", "c", "o", "u", "n", "t">>,
                   <<"9">> >>
    /\ FlagPositions = {1, 2}
    /\ data["Counter"] = 9
    /\ \A order \in keyOrders(defaultKeys(options)) :
           populateFromSlice(fields,
               << <<"-", "v">>, <<"+", "c">>, <<"9">> >>,
               isFused, orig, order) = [v |-> data, err |-> "nil"]

(***************************************************************************)
(* Conversion: one struct for each type that is allowed                    *)
(***************************************************************************)

\* the default string of the field D of each struct, and the format of the
\* time.Time field D
convDefault(elem) ==
    CASE elem = "bool"     -> <<"t", "r", "u", "e">>
      [] elem = "string"   -> <<"u">>
      [] elem = "int"      -> <<"7">>
      [] elem = "float64"  -> <<"2", ".", "5">>
      [] elem = "time"     -> <<"2", "0", "0", "4", "-", "1", "2", "-",
                                "0", "1">>
      [] elem = "duration" -> <<"3", "0", "0", "m", "s">>

convFormat(elem) ==
    IF elem = "time"
    THEN <<"2", "0", "0", "6", "-", "0", "1", "-", "0", "2">>
    ELSE <<>>

\* struct {
\*     X    T `arg-flag:"-x"`
\*     D    T `arg-flag:"-d" arg-default:"..."`     with arg-format:"2006-01-02"
\*     Rest []string                                for T = time.Time
\* }
convArgs(elem) ==
    << Field("X", "scalar", elem, TRUE, << <<"-", "x">> >>, <<>>, FALSE),
       WithFormat(Field("D", "scalar", elem, TRUE, << <<"-", "d">> >>,
                        convDefault(elem), FALSE),
                  convFormat(elem)),
       Field("Rest", "slice", "string", FALSE, <<>>, <<>>, FALSE) >>

\* the tokens of the slices passed with these structs: the flags, the empty
\* string, and a value of each type
convTokens ==
    { <<"-", "x">>, <<"-", "d">>, <<>>, <<"-", "-">>,
      <<"9">>, <<"2", "e", "-", "1">>, <<"3", "0", "0", "m", "s">>,
      <<"2", "0", "0", "4", "-", "1", "2", "-", "0", "1", " ",
        "2", "3", ":", "4", "5", ":", "0", "0">> }

InitConvert ==
    /\ fields \in {convArgs(elem) : elem \in allowedTypes}
    /\ tokens \in Slices(convTokens, MaxTokens)
    /\ isFused \in BOOLEAN
    /\ orig = structValue(fields, FALSE)
    /\ InitLocals

SpecConvert == InitConvert /\ [][Next]_vars

\* the option fields of the struct that are booleans
BoolOptions == {i \in ScalarOptions : fields[i].elem = "bool"}

\* a flag of the field occurs in the tokens before "--"
Occurs(f) == Occurrences(Classified(BeforeMarker), f) > 0

\* C18 as stated: after a successful parse of a new struct, a boolean option
\* is true only if a flag of it occurs in the tokens before "--".
C18_AsStated ==
    (pc = "done" /\ err = "nil") =>
        \A i \in BoolOptions :
            data[fields[i].Name] => (orig[fields[i].Name] \/ Occurs(fields[i]))

\* C18 amended: populateDefaults covers the boolean options too.  In
\* standard mode a boolean option that declares a default string is true
\* from populateDefaults on, whether its flag occurs or not; a boolean option
\* without default string, and every boolean option in fused mode, is after
\* a successful parse true if and only if a flag of it occurs before "--"
\* or the caller had set it.
C18_BoolDefaultPrepopulated ==
    /\ (~isFused /\ pc \in {"processTokens", "processMaybeFlags",
                            "populateOptions", "populatePositionals"}) =>
           \A i \in BoolOptions :
               fields[i].defaultval # <<>> => data[fields[i].Name]
    /\ (pc = "done" /\ err = "nil") =>
           \A i \in BoolOptions :
               data[fields[i].Name] <=>
                   \/ orig[fields[i].Name]
                   \/ Occurs(fields[i])
                   \/ (~isFused /\ fields[i].defaultval # <<>>)

\* C18 witness: standard mode has parsed ["-x", "--", "-d"] into a new struct
\* with X bool and D bool, default "true": X is true from its flag, D is
\* true though "-d" stands only after "--", where it is a positional
C18_Witness ==
    /\ pc = "done"
    /\ err = "nil"
    /\ ~isFused
    /\ fields = convArgs("bool")
    /\ tokens = << <<"-", "x">>, <<"-", "-">>, <<"-", "d">> >>
    /\ ~Occurs(fields[2])
    /\ data["X"]
    /\ data["D"]
    /\ data["Rest"].elems = << <<"-", "d">> >>

\* the fieldInfos that the pending call of populateFromSlice passes to
\* convertToType: the options with a default, the flag assignments, or the
\* positional fields with the positional tokens as values
InfosToConvert ==
    CASE pc = "populateDefaults" ->
             {options[k] : k \in defaultKeys(options)}
      [] pc = "populateOptions" ->
             {retainedOpts[j] : j \in 1..Len(retainedOpts)}
      [] pc = "populatePositionals" ->
             {[positionals[p] EXCEPT !.value = posTokens[i]] :
                 p \in 1..Len(positionals), i \in 1..Len(posTokens)}
      [] OTHER -> {}

\* the types with a value
ValueTypes == {"string", "int", "float64", "time", "duration"}

\* the value of the default string of field D of convArgs(elem)
DefaultValueOf(elem) ==
    CASE elem = "bool"     -> TRUE
      [] elem = "string"   -> <<"u">>
      [] elem = "int"      -> 7
      [] elem = "float64"  -> [mant |-> 25, exp |-> 0 - 1]
      [] elem = "time"     -> [year |-> 2004, month |-> 12, day |-> 1,
                               hour |-> 0, min |-> 0, sec |-> 0]
      [] elem = "duration" -> [sec |-> 0, nsec |-> 300000000]

\* C19 as stated: for each of the types string, int, float64, time.Time and
\* time.Duration, convertToType on an empty raw value converts the default
\* string when there is one and returns an error when there is none.
C19_AsStated ==
    \A info \in InfosToConvert :
        (info.baseType \in ValueTypes /\ info.value = <<>>) =>
            IF info.defaultval = <<>>
            THEN convertToType(info).err = "ConversionError"
            ELSE convertToType(info) =
                     convertToType([info EXCEPT !.value = info.defaultval])

\* C19 amended: on an empty raw value convertToType converts the default
\* string when there is one; when there is none it returns an error for int,
\* float64, time.Time and time.Duration, and the empty string without error
\* for string.  So with X of type T, flag "-x", no default, and D of type T,
\* flag "-d", with a default: ["-x"] in fused mode and ["-x", ""] in
\* standard mode fail unless T is string (X is then "") or bool, and
\* ["-d", ""] in standard mode leaves D with the value of its default.
C19_EmptyRawValue ==
    /\ \A info \in InfosToConvert :
           (info.baseType \in ValueTypes /\ info.value = <<>>) =>
               IF info.defaultval # <<>>
               THEN convertToType(info) =
                        convertToType([info EXCEPT
                                          !.value = info.defaultval])
               ELSE IF info.baseType = "string"
               THEN convertToType(info) = [val |-> <<>>, err |-> "nil"]
               ELSE convertToType(info).err = "ConversionError"
    /\ (pc = "done" /\ fields \in {convArgs(e) : e \in allowedTypes}) =>
           LET elem == fields[1].elem
           IN  /\ ( \/ (isFused /\ tokens = << <<"-", "x">> >>)
                    \/ (~isFused /\ tokens = << <<"-", "x">>, <<>> >>) ) =>
                      IF elem \in {"string", "bool"}
                      THEN /\ err = "nil"
                           /\ elem = "string" => data["X"] = <<>>
                      ELSE /\ err = "ConversionError"
                           /\ data["X"] = orig["X"]
               /\ (~isFused /\ tokens = << <<"-", "d">>, <<>> >>
                       /\ elem # "bool") =>
                      /\ err = "nil"
                      /\ Len(retainedOpts) = 1
                      /\ retainedOpts[1].value = <<>>
                      /\ data["D"] = DefaultValueOf(elem)

\* C19 witness: fused mode has parsed ["-x", "-d"] with X and D of type
\* time.Duration: the first conversion, of an empty raw value without
\* default, has failed, and nothing is written
C19_Witness ==
    /\ pc = "done"
    /\ isFused
    /\ fields = convArgs("duration")
    /\ tokens = << <<"-", "x">>, <<"-", "d">> >>
    /\ Len(retainedOpts) = 2
    /\ retainedOpts[1].value = <<>>
    /\ retainedOpts[1].defaultval = <<>>
    /\ err = "ConversionError"
    /\ data = orig

\* the pending token of the iteration is not one re-synthesized from a
\* compound flag: isCompound is false after lines 586-589
NotMidCompound == mf.token = <<>> \/ ~mf.isCompound

\* C20 as stated: an iteration whose pending token has a key that is not in
\* the option map, outside a compound flag, appends the key that chopToken
\* returns for the token to the positionals.
C20_AsStated ==
    [][ ( /\ Iterating
          /\ NotMidCompound
          /\ PendingKey \notin DOMAIN options )
        => mf'.positionals = Append(mf.positionals, PendingKey) ]_vars

\* C20 amended: an iteration whose pending token has a key that is not in
\* the option map, outside a compound flag, appends the whole pending token
\* to the positionals, the remainder that chopToken splits off included
\* ("-x1" is emitted as "-x1", not as its key "-x"), clears the pending
\* token and goes on; this holds for every token, flag-shaped or not ("9",
\* "-", ""), and the token emitted is the key only if chopToken has split
\* nothing off.
C20_UnknownEmitsWholeToken ==
    [][ ( /\ Iterating
          /\ NotMidCompound
          /\ PendingKey \notin DOMAIN options )
        => ( /\ mf'.positionals = Append(mf.positionals, Pending)
             /\ PendingRest # <<>> =>
                    mf'.positionals # Append(mf.positionals, PendingKey)
             /\ mf'.token = <<>>
             /\ mf'.tokens = QueueAfter
             /\ mf'.flags = mf.flags
             /\ mf'.err = "nil" ) ]_vars

\* C20 witness: processMaybeFlags has returned for a slice that starts with
\* the unknown flag "-x1": the first positional is "-x1", and the key of
\* that token is "-x"
C20_Witness ==
    /\ pc = "populateOptions"
    /\ tokens # <<>>
    /\ tokens[1] = <<"-", "x", "1">>
    /\ chopToken(tokens[1])[1] = <<"-", "x">>
    /\ posTokens # <<>>
    /\ posTokens[1] = <<"-", "x", "1">>

(***************************************************************************)
(* Compound flags: the prefix, long flags, and what follows a compound     *)
(***************************************************************************)

\* struct {
\*     A    bool     `arg-flag:"-a +a"`
\*     P    bool     `arg-flag:"-p"`
\*     B    int      `arg-flag:"+b" arg-default:"4"`
\*     M    int      `arg-flag:"-b"`        only when minusB
\*     V    bool     `arg-flag:"--verbose"`
\*     Rest []string
\* }
chainArgs(minusB) ==
    << Field("A", "scalar", "bool", TRUE, << <<"-", "a">>, <<"+", "a">> >>,
             <<>>, FALSE),
       Field("P", "scalar", "bool", TRUE, << <<"-", "p">> >>, <<>>, FALSE),
       Field("B", "scalar", "int", TRUE, << <<"+", "b">> >>, <<"4">>,
             FALSE) >>
    \o (IF minusB
        THEN << Field("M", "scalar", "int", TRUE, << <<"-", "b">> >>,
                      <<>>, FALSE) >>
        ELSE <<>>)
    \o << Field("V", "scalar", "bool", TRUE,
                << <<"-", "-", "v", "e", "r", "b", "o", "s", "e">> >>,
                <<>>, FALSE),
          Field("Rest", "slice", "string", FALSE, <<>>, <<>>, FALSE) >>

\* struct {
\*     A    bool `arg-flag:"-a"`
\*     B    int  `arg-flag:"-bbb" arg-default:"4"`
\*     Rest []string
\* }
badChainArgs ==
    << Field("A", "scalar", "bool", TRUE, << <<"-", "a">> >>, <<>>, FALSE),
       Field("B", "scalar", "int", TRUE, << <<"-", "b", "b", "b">> >>,
             <<"4">>, FALSE),
       Field("Rest", "slice", "string", FALSE, <<>>, <<>>, FALSE) >>

\* the tokens of the slices passed with these structs
chainTokens ==
    { <<"+", "a", "b", "3">>, <<"+", "a">>, <<"+", "b", "3">>, <<"+", "b">>,
      <<"-", "-", "v", "e", "r", "b", "o", "s", "e", "=", "a", "p">>,
      <<"-", "-", "v", "e", "r", "b", "o", "s", "e">>,
      <<"-", "p", "1">>, <<"-", "a", "p">>, <<"-", "x">> }

InitChains ==
    /\ fields \in {chainArgs(minusB) : minusB \in BOOLEAN} \cup {badChainArgs}
    /\ tokens \in Slices(chainTokens, MaxTokens)
    /\ isFused \in BOOLEAN
    /\ orig \in {structValue(fields, FALSE), structValue(fields, TRUE)}
    /\ InitLocals

SpecChains == InitChains /\ [][Next]_vars

\* token t is a flag of a boolean field followed by characters that are not
\* a flag, as "-p1"
BoolThenNoFlag(t) ==
    /\ Len(t) >= 3
    /\ t[1] \in {"-", "+"}
    /\ t[2] # "-"
    /\ chopToken(t)[1] \in DOMAIN options
    /\ options[chopToken(t)[1]].baseType = "bool"
    /\ \A c \in {"-", "+"} :
           chopToken(<<c>> \o chopToken(t)[2])[1] \notin DOMAIN options

\* C21 as stated: when processTokens has returned for a single token that
\* is a flag of a boolean field followed by characters that are not a flag
\* ("-p1"), in either mode, there is no error, there is one flag assignment,
\* with the characters that follow the flag as raw value, and no positional.
C21_AsStated ==
    (TokensReturned /\ Len(tokens) = 1 /\ BoolThenNoFlag(tokens[1])) =>
        /\ mf.err = "nil"
        /\ Len(retainedOpts) = 1
        /\ retainedOpts[1].value = chopToken(tokens[1])[2]
        /\ posTokens = <<>>

\* populateDefaults writes the default of field f
DefaultWritten(f) ==
    /\ ~f.ignore
    /\ f.hasFlag
    /\ f.kind # "slice"
    /\ f.defaultval # <<>>

\* the struct before populateOptions is called: as the caller passed it,
\* but for the defaults written in standard mode
BeforeOptions ==
    [n \in DOMAIN orig |->
        IF ~isFused /\ DefaultWritten(fieldNamed(fields, n))
        THEN Converted(fieldNamed(fields, n).elem,
                       fieldNamed(fields, n).defaultval)
        ELSE orig[n]]

\* C22: nothing from the tokens is written before processTokens has
\* returned without error.  When analyzeStruct fails the struct is as the
\* caller passed it; while the tokens are processed, and when
\* processMaybeFlags has failed for want of a value or for an unknown flag
\* in a compound flag, no flag assignment is returned, and the struct is as
\* the caller passed it, but for the defaults written in standard mode.
C22_WrittenAfterResolution ==
    /\ pc \in {"analyzeStruct", "populateDefaults"} => data = orig
    /\ (pc = "done" /\ err = "SchemaError") =>
           /\ data = orig
           /\ mf = loopInit(<<>>)
    /\ pc \in {"processTokens", "processMaybeFlags"} => data = BeforeOptions
    /\ (pc = "done" /\ mf.err # "nil") =>
           /\ err = mf.err
           /\ err \in {"InsufficientTokens", "UnknownCompoundFlag"}
           /\ retainedOpts = <<>>
           /\ data = BeforeOptions

\* C22 witness: standard mode has failed on ["+a", "+b3", "+b"], the last
\* flag having no value: A and B were resolved before the failure, and A is
\* still false and B holds its default 4
C22_Witness ==
    /\ pc = "done"
    /\ ~isFused
    /\ err = "InsufficientTokens"
    /\ tokens = << <<"+", "a">>, <<"+", "b", "3">>, <<"+", "b">> >>
    /\ orig = structValue(fields, FALSE)
    /\ data["A"] = FALSE
    /\ data["B"] = 4

\* the tokens after the first "--"
AfterMarker ==
    IF \E k \in 1..Len(tokens) : FirstMarkerAt(k)
    THEN SubSeq(tokens, (CHOOSE k \in 1..Len(tokens) : FirstMarkerAt(k)) + 1,
                Len(tokens))
    ELSE <<>>

\* the token before the first "--" stands as a flag, and is a flag of a
\* field that is not boolean, without a value attached
BareFlagBeforeMarker ==
    \E k \in 2..Len(tokens) :
        /\ FirstMarkerAt(k)
        /\ (k - 1) \in FlagPositions
        /\ tokens[k - 1] \in DOMAIN options
        /\ options[tokens[k - 1]].baseType # "bool"

\* C23: the "--" is cut off before the flags are resolved: the queue of
\* processMaybeFlags never holds it and no flag assignment has it as value.
\* In standard mode a flag of a field that is not boolean, without value
\* attached, that stands as a flag just before the first "--" (["-s", "--",
\* "9"]) fails for want of a value; the tokens after the "--" are returned
\* as positionals and the struct gets nothing from the tokens.
C23_MarkerNeverAValue ==
    /\ pc = "processMaybeFlags" =>
           \A i \in 1..Len(mf.tokens) : mf.tokens[i] # endFlagsIndicator
    /\ \A j \in 1..Len(mf.flags) : mf.flags[j].value # endFlagsIndicator
    /\ \A j \in 1..Len(retainedOpts) :
           retainedOpts[j].value # endFlagsIndicator
    /\ (TokensReturned /\ ~isFused /\ BareFlagBeforeMarker) =>
           /\ pc = "done"
           /\ mf.err = "InsufficientTokens"
           /\ err = "InsufficientTokens"
           /\ retainedOpts = <<>>
           /\ posTokens = AfterMarker
           /\ data = BeforeOptions

\* C23 witness: standard mode has failed on ["-s", "--", "9"] for want of a
\* value for "-s"; "9" is returned as positional and Names is as it was
C23_Witness ==
    /\ pc = "done"
    /\ ~isFused
    /\ tokens = << <<"-", "s">>, <<"-", "-">>, <<"9">> >>
    /\ err = "InsufficientTokens"
    /\ posTokens = << <<"9">> >>
    /\ data["Names"] = orig["Names"]

\* the number of characters of the tokens of ts, plus one for each token
RECURSIVE Weight(_)
Weight(ts) ==
    IF ts = <<>> THEN 0 ELSE Len(Head(ts)) + 1 + Weight(Tail(ts))

\* what the loop of processMaybeFlags has left to do: the characters of the
\* pending token, and the characters and the number of the tokens in the
\* queue
Measure(st) == Len(st.token) + Weight(st.tokens)

\* C24: every iteration of the loop of processMaybeFlags either returns an
\* error, and the function with it, or takes at least one token off the
\* queue, or leaves the queue as it is and makes the pending token
\* shorter.  The characters of the pending token plus the characters and the
\* number of the tokens in the queue decrease with every iteration, from at
\* most the characters plus the number of the tokens passed, and never
\* below zero: the loop ends after at most that many iterations, in both
\* modes.
C24_LoopTerminates ==
    [][ Iterating =>
        /\ Measure(mf) <= Weight(tokens)
        /\ Measure(mf') >= 0
        /\ IF mf'.err # "nil"
           THEN pc' = "done"
           ELSE /\ Measure(mf') < Measure(mf)
                /\ \/ Len(mf'.tokens) < Len(mf.tokens)
                   \/ /\ mf'.tokens = mf.tokens
                      /\ mf.token # <<>>
                      /\ Len(mf'.token) < Len(mf.token) ]_vars

\* C24 witness: the loop has ended on ["-apb", "", "-ab3"] in fused mode:
\* two compound flags were peeled, the flags "-a" "-p" "-b" "-a" "-b" are
\* returned, and nothing is left
C24_Witness ==
    /\ pc = "populateOptions"
    /\ isFused
    /\ tokens = << <<"-", "a", "p", "b">>, <<>>, <<"-", "a", "b", "3">> >>
    /\ Len(retainedOpts) = 5
    /\ posTokens = << <<>> >>
    /\ ~loopCond(mf)
    /\ Measure(mf) = 0

\* C25: isCompound does not outlive the token that set it.  An iteration
\* that starts with the pending token cleared, isCompound still being true
\* from the compound flag that has just ended, takes the next token from the
\* queue as if isCompound were false: it never returns the error for an
\* unknown flag in a compound flag, and when the key of that token is not in
\* the option map it appends the token to the positionals.  That error is
\* returned only on a token re-synthesized from a compound flag.  So
\* ["-ap", "-x"] returns the flags "-a" and "-p" and the positional "-x".
C25_CompoundEndsWithToken ==
    [][ /\ ( /\ Iterating
             /\ mf.token = <<>>
             /\ mf.isCompound )
           => /\ mf'.err # "UnknownCompoundFlag"
              /\ PendingKey \notin DOMAIN options =>
                     /\ mf'.err = "nil"
                     /\ mf'.positionals =
                            Append(mf.positionals, Head(mf.tokens))
                     /\ mf'.flags = mf.flags
                     /\ ~mf'.isCompound
        /\ ( /\ Iterating
             /\ mf'.err = "UnknownCompoundFlag" )
           => /\ mf.token # <<>>
              /\ mf.isCompound
        /\ ( /\ pc = "populateOptions"
             /\ tokens = << <<"-", "a", "p">>, <<"-", "x">> >> )
           => /\ posTokens = << <<"-", "x">> >>
              /\ Len(retainedOpts) = 2
              /\ retainedOpts[1].flag = <<"-", "a">>
              /\ retainedOpts[2].flag = <<"-", "p">> ]_vars

\* C25 witness: processTokens has returned without error for
\* ["-ap", "-x"]: two flags, and "-x" as positional, isCompound false again
C25_Witness ==
    /\ pc = "populateOptions"
    /\ tokens = << <<"-", "a", "p">>, <<"-", "x">> >>
    /\ mf.err = "nil"
    /\ Len(retainedOpts) = 2
    /\ posTokens = << <<"-", "x">> >>
    /\ ~mf.isCompound

\* ts with the token at position i replaced by the tokens of us
Replaced(ts, i, us) ==
    SubSeq(ts, 1, i - 1) \o us \o SubSeq(ts, i + 1, Len(ts))

\* C26 as stated: a compound flag keeps the prefix of its token, so that
\* "+ab3", with "+a" a flag of a boolean field and "+b" a flag of an int
\* field, standing where a flag may stand, gives what the two tokens "+a"
\* "+b3" in its place give: the same error and the same struct.
C26_AsStated ==
    pc = "done" =>
        \A i \in FlagPositions :
            tokens[i] = <<"+", "a", "b", "3">> =>
                \A order \in keyOrders(defaultKeys(options)) :
                    LET r == populateFromSlice(fields,
                                 Replaced(tokens, i,
                                     << <<"+", "a">>, <<"+", "b", "3">> >>),
                                 isFused, orig, order)
                    IN  /\ r.err = err
                        /\ r.v = data

\* the token of the queue that the pending token was taken from or
\* re-synthesized from
Origin ==
    BeforeMarker[Len(BeforeMarker) - Len(mf.tokens)]

ShortFlagsOfChain == { <<"-", "a">>, <<"-", "p">> }

\* C27 as stated: only a token with a single prefix starts a compound flag.
\* A pending token re-synthesized from a compound flag never comes from a
\* token that starts with "--", and "--verbose=ap", with "--verbose" a flag
\* of a boolean field, returns no assignment for the flags "-a" and "-p".
C27_AsStated ==
    /\ (pc = "processMaybeFlags" /\ mf.token # <<>> /\ mf.isCompound) =>
           ~HasPrefix(Origin, <<"-", "-">>)
    /\ (TokensReturned /\ Len(tokens) = 1
            /\ tokens[1] = <<"-", "-", "v", "e", "r", "b", "o", "s", "e",
                             "=", "a", "p">>) =>
           \A j \in 1..Len(retainedOpts) :
               retainedOpts[j].flag \notin ShortFlagsOfChain

\* the place of a call in populateFromSlice
PhaseRank(p) ==
    CASE p = "analyzeStruct"       -> 1
      [] p = "populateDefaults"    -> 2
      [] p = "processTokens"       -> 3
      [] p = "processMaybeFlags"   -> 4
      [] p = "populateOptions"     -> 5
      [] p = "populatePositionals" -> 6
      [] p = "done"                -> 7

\* the value the flag assignments returned leave in option field f
AfterOptions(f) ==
    IF f.kind = "slice"
    THEN [isNil |-> orig[f.Name].isNil /\ Assignments(f.Name) = {},
          elems |-> orig[f.Name].elems \o ValuesOf(retainedOpts, f)]
    ELSE IF Assignments(f.Name) = {} THEN BeforeOptions[f.Name]
    ELSE Converted(f.elem, EffectiveRaw(LastAssignment(f.Name)))

\* C28: when populatePositionals fails because the number of positional
\* tokens does not fit the positional fields, it has written no positional
\* field, the function returns with that error, and the option fields keep
\* what the flag assignments have put in them.  The calls of
\* populateFromSlice follow each other in one order and none is made twice:
\* only the loop of processMaybeFlags stays where it is from one step to the
\* next.
C28_ArityFailureKeepsOptions ==
    [][ /\ PhaseRank(pc') >= PhaseRank(pc)
        /\ PhaseRank(pc') = PhaseRank(pc) => pc = "processMaybeFlags"
        /\ pc' = "populateDefaults" => (pc = "analyzeStruct" /\ ~isFused)
        /\ pc' = "populatePositionals" => pc = "populateOptions"
        /\ (pc = "populatePositionals" /\ err' = "ArityMismatch") =>
               /\ pc' = "done"
               /\ data' = data
               /\ \A n \in SlotNames : data'[n] = orig[n]
               /\ \A i \in OptionFields :
                      data'[fields[i].Name] = AfterOptions(fields[i]) ]_vars

\* C28 witness: with the positional fields A and B, standard mode has
\* failed on ["-f", "2", "1"] with the arity error: F holds 2, and the one
\* positional token is in neither A nor B
C28_Witness ==
    /\ pc = "done"
    /\ ~isFused
    /\ err = "ArityMismatch"
    /\ fields = layoutArgs(<<"A", "B">>)
    /\ tokens = << <<"-", "f">>, <<"2">>, <<"1">> >>
    /\ data["F"] = [isNil |-> FALSE, elems |-> <<2>>]
    /\ data["A"] = 0
    /\ data["B"] = 0

\* the flag assignments fl[1..g] are what token t gives: the flag that is
\* the key of t, then one flag "-c" for each of the next g-1 characters c
\* after the key; all but the last are flags of boolean fields, with an
\* empty value
GroupOf(t, fl, g) ==
    /\ g \in 1..Len(fl)
    /\ g <= Len(chopToken(t)[2]) + 1
    /\ fl[1].flag = chopToken(t)[1]
    /\ \A k \in 2..g : fl[k].flag = <<"-", chopToken(t)[2][k - 1]>>
    /\ \A k \in 1..g : /\ fl[k].flag \in DOMAIN options
                       /\ fl[k].Name = options[fl[k].flag].Name
    /\ \A k \in 1..(g - 1) : /\ options[fl[k].flag].baseType = "bool"
                             /\ fl[k].value = <<>>
    /\ g > 1 => t[1] \in {"-", "+"}

\* what follows the flag of assignment number g in token t
Attached(t, g) == SubSeq(chopToken(t)[2], g, Len(chopToken(t)[2]))

\* the tokens ts are accounted for by the flag assignments fl and the
\* positionals ps, each token once and in order: as a positional, as the
\* flag assignments of a flag or of a compound flag, or as the value of the
\* flag in the token before it
RECURSIVE Accounted(_, _, _)
Accounted(ts, fl, ps) ==
    IF ts = <<>> THEN fl = <<>> /\ ps = <<>>
    ELSE IF chopToken(Head(ts))[1] \notin DOMAIN options
    THEN /\ ps # <<>>
         /\ Head(ps) = Head(ts)
         /\ Accounted(Tail(ts), fl, Tail(ps))
    ELSE \E g \in 1..Len(fl) :
            /\ GroupOf(Head(ts), fl, g)
            /\ IF options[fl[g].flag].baseType = "bool"
               THEN /\ Attached(Head(ts), g) = <<>>
                    /\ fl[g].value = <<>>
                    /\ Accounted(Tail(ts), SubSeq(fl, g + 1, Len(fl)), ps)
               ELSE IF Attached(Head(ts), g) # <<>>
               THEN /\ fl[g].value = Attached(Head(ts), g)
                    /\ Accounted(Tail(ts), SubSeq(fl, g + 1, Len(fl)), ps)
               ELSE IF isFused
               THEN /\ fl[g].value = options[fl[g].flag].defaultval
                    /\ Accounted(Tail(ts), SubSeq(fl, g + 1, Len(fl)), ps)
               ELSE /\ Len(ts) >= 2
                    /\ fl[g].value = ts[2]
                    /\ Accounted(Tail(Tail(ts)),
                                 SubSeq(fl, g + 1, Len(fl)), ps)

\* C29: when processMaybeFlags has returned without error, every token
\* passed to it is accounted for once, and in order: it is in the
\* positionals as it was written, or it has given the flag assignment of its
\* flag (those of its flags, all but the last boolean, for a compound
\* flag), or, in standard mode, it is the value of the flag in the token
\* before it; the positionals and the flag assignments hold nothing else.
C29_TokensAccounted ==
    pc = "populateOptions" =>
        /\ Accounted(BeforeMarker, retainedOpts, mf.positionals)
        /\ posTokens = mf.positionals \o AfterMarker

\* C29 witness: standard mode has resolved ["-apb", "9", "-x1"]: the flags
\* "-a" "-p" "-b" from the first token, "9" as the value of "-b", and "-x1"
\* as positional
C29_Witness ==
    /\ pc = "populateOptions"
    /\ ~isFused
    /\ tokens = << <<"-", "a", "p", "b">>, <<"9">>, <<"-", "x", "1">> >>
    /\ Len(retainedOpts) = 3
    /\ retainedOpts[3].value = <<"9">>
    /\ mf.positionals = << <<"-", "x", "1">> >>

\* the number of empty strings in the sequence of strings ts
RECURSIVE EmptyIn(_)
EmptyIn(ts) ==
    IF ts = <<>> THEN 0
    ELSE (IF Head(ts) = <<>> THEN 1 ELSE 0) + EmptyIn(Tail(ts))

\* the number of flag assignments of fl that have an empty value for a
\* field that is not boolean
RECURSIVE EmptyValuesIn(_)
EmptyValuesIn(fl) ==
    IF fl = <<>> THEN 0
    ELSE (IF Head(fl).value = <<>> /\ Head(fl).baseType # "bool"
          THEN 1 ELSE 0) + EmptyValuesIn(Tail(fl))

\* the pending token is the bare flag of a known field that is not boolean
PendingBareValueFlag ==
    /\ PendingKey \in DOMAIN options
    /\ options[PendingKey].baseType # "bool"
    /\ PendingRest = <<>>

\* C30: an empty string among the tokens is resolved like any token that is
\* no flag. An iteration that takes it from the queue appends it to the
\* positionals and leaves the rest of the queue, the flag assignments and
\* the error as they are. In standard mode an iteration on the bare flag of
\* a field that is not boolean, with the empty string next in the queue,
\* takes it as the value of the flag and leaves the tokens after it in the
\* queue. When the loop returns, the queue is empty, and the empty strings
\* before the end-of-flags marker are the empty positionals and, in
\* standard mode, the empty values taken.
C30_EmptyTokenIsOrdinary ==
    [][ /\ (Iterating /\ Pending = <<>>) =>
               /\ mf'.positionals = Append(mf.positionals, <<>>)
               /\ mf'.tokens = Tail(mf.tokens)
               /\ mf'.token = <<>>
               /\ mf'.flags = mf.flags
               /\ mf'.err = "nil"
               /\ pc' = "processMaybeFlags"
        /\ ( /\ Iterating
             /\ ~isFused
             /\ PendingBareValueFlag
             /\ QueueAfter # <<>>
             /\ Head(QueueAfter) = <<>> ) =>
               /\ Len(mf'.flags) = Len(mf.flags) + 1
               /\ mf'.flags[Len(mf'.flags)].flag = PendingKey
               /\ mf'.flags[Len(mf'.flags)].value = <<>>
               /\ mf'.tokens = Tail(QueueAfter)
               /\ mf'.token = <<>>
               /\ mf'.positionals = mf.positionals
               /\ mf'.err = "nil"
        /\ pc' = "populateOptions" /\ pc = "processMaybeFlags" =>
               /\ mf.tokens = <<>>
               /\ EmptyIn(BeforeMarker) =
                      EmptyIn(mf.positionals)
                      + (IF isFused THEN 0 ELSE EmptyValuesIn(mf.flags)) ]_vars

\* C30 witness: standard mode has resolved ["", "-b", ""]: the first empty
\* string is a positional, the flag after it is resolved, and the second
\* empty string is its value
C30_Witness ==
    /\ pc = "populateOptions"
    /\ ~isFused
    /\ tokens = << <<>>, <<"-", "b">>, <<>> >>
    /\ mf.positionals = << <<>> >>
    /\ Len(retainedOpts) = 1
    /\ retainedOpts[1].flag = <<"-", "b">>
    /\ retainedOpts[1].value = <<>>

=============================================================================
